---------------------------- MODULE Spec2Model ----------------------------
(***************************************************************************)
(* Physical memory management of the goose kernel: the bootstrap (bump)    *)
(* frame allocator BootMemAllocator and the BitmapAllocator that inherits  *)
(* its allocations.                                                        *)
(*                                                                         *)
(* Number representation.  mm.Frame is a uint64 and the allocator counters *)
(* are uint32/uint64.  A value v of such a type is represented by the      *)
(* integer congruent to v (modulo 2^64, resp. 2^32) of least magnitude, so *)
(* that 0xFFFF...FFFF is -1: additions and subtractions are then the plain *)
(* integer ones, and the unsigned order is given by ULt/ULe below.         *)
(***************************************************************************)
EXTENDS Integers, Sequences, FiniteSets, TLC

(***************************************************************************)
(* Bounds of the model                                                     *)
(***************************************************************************)
\* the enumerated memory maps and kernel spans cover frames 0..MaxFrame
MaxFrame == 4
\* the enumerated kernel images span at most MaxKernelFrames frames
MaxKernelFrames == 2
\* BitmapAllocator.init is entered after at most MaxEarlyAllocs bump allocations
MaxEarlyAllocs == 2
\* number of AllocFrame/FreeFrame calls made on the bitmap allocator
MaxOps == 2
\* number of concurrent callers of the bitmap allocator
NumThreads == 2
\* the goruntime shims are called with sizes of up to MaxPages pages
MaxPages == 3
\* getRandomData is called with buffers of up to MaxBuf bytes
MaxBuf == 2

(***************************************************************************)
(* mm package constants                                                    *)
(***************************************************************************)
PageShift == 12
PageSize == 4096
InvalidFrame == 0 - 1

pageSizeMinus1 == PageSize - 1

\* a & ^pageSizeMinus1 for an address a >= 0
AlignDown(a) == a - (a % PageSize)

\* a >> mm.PageShift for an address a >= 0
ShiftPage(a) == a \div (2 ^ PageShift)

\* unsigned comparison of two uint64 values given by their representatives
ULt(a, b) == IF (a >= 0) = (b >= 0) THEN a < b ELSE a >= 0
ULe(a, b) == a = b \/ ULt(a, b)

(***************************************************************************)
(* Memory maps handed over by the bootloader (multiboot.MemoryMapEntry)    *)
(***************************************************************************)
Region(addr, len, type) == [PhysAddress |-> addr, Length |-> len, Type |-> type]

HalfPage == PageSize \div 2

\* scenario 1: one usable region [0x0, 0x200000), kernel at [0x100000, 0x101000)
Scenario1Map == << Region(0, 512 * PageSize, "MemAvailable") >>
Scenario1Kernel == << 256 * PageSize, 257 * PageSize >>

\* scenario 2: [0x0, 0x100000) and [0x200000, 0x300000) available, the kernel
\* in the reserved gap [0x100000, 0x200000)
Scenario2Map ==
    << Region(0, 256 * PageSize, "MemAvailable"),
       Region(256 * PageSize, 256 * PageSize, "MemReserved"),
       Region(512 * PageSize, 256 * PageSize, "MemAvailable") >>
Scenario2Kernel == << 256 * PageSize, 512 * PageSize >>

\* the memory maps over frames 0..MaxFrame: one region of either type with
\* boundaries on half pages, or two page-aligned available regions that do
\* not overlap, in either order
Boundaries == { k * HalfPage : k \in 0 .. 2 * (MaxFrame + 1) }

OneRegionMaps ==
    { << Region(ab[1], ab[2] - ab[1], t) >> :
        ab \in { x \in Boundaries \X Boundaries : x[1] < x[2] },
        t \in {"MemAvailable", "MemReserved"} }

FrameRegion(first, last) ==
    Region(first * PageSize, (last + 1 - first) * PageSize, "MemAvailable")

TwoRegionMaps ==
    UNION { { << FrameRegion(q[1], q[2]), FrameRegion(q[3], q[4]) >>,
              << FrameRegion(q[3], q[4]), FrameRegion(q[1], q[2]) >> } :
            q \in { t \in (0 .. MaxFrame) \X (0 .. MaxFrame) \X
                          (0 .. MaxFrame) \X (0 .. MaxFrame) :
                      t[1] <= t[2] /\ t[2] < t[3] /\ t[3] <= t[4] } }

SmallMaps == OneRegionMaps \cup TwoRegionMaps

\* kernel images [kernelStart, kernelEnd) of 1..MaxKernelFrames frames, page
\* aligned or ending and starting one byte inside their first and last page
SmallKernels ==
    { << f * PageSize + o, (f + n) * PageSize - o >> :
        f \in 0 .. MaxFrame, n \in 1 .. MaxKernelFrames, o \in {0, 1} }

MemoryMaps == SmallMaps \cup {Scenario1Map, Scenario2Map}

KernelSpans(map) ==
    IF map = Scenario1Map THEN {Scenario1Kernel}
    ELSE IF map = Scenario2Map THEN {Scenario2Kernel}
    ELSE SmallKernels

(***************************************************************************)
(* State                                                                   *)
(***************************************************************************)
VARIABLES
    pc,                \* "start", "boot" (bump allocator in use), "bitmap"
                       \* (bitmap allocator in use), "initfailed", "panic"
    mmap,              \* the bootloader's memory map, in its order
    bootMemAllocator,  \* the BootMemAllocator singleton
    earlyFrames,       \* frames returned by the successful bump AllocFrame calls
    earlyResult,       \* (frame, error) returned by the last bump AllocFrame call
    bitmapAllocator,   \* the BitmapAllocator singleton
    inheritedFrames,   \* frames the replay of the bump allocator produced in init
    bitmapResult,      \* operation, argument and result of the last bitmap call
    outstanding,       \* frames handed out by the bitmap AllocFrame and not freed
    foreignFree,       \* a FreeFrame of a frame AllocFrame never returned succeeded
    ops,               \* number of bitmap allocator calls made
    memEvents,         \* the AllocFrame, Map and Memset calls of the last
                       \* reserve loop (setupPoolBitmaps or sysAlloc), in order
    mutex,             \* BitmapAllocator.mutex: 0 = free, 1 = held
    threads,           \* the callers of AllocFrame/FreeFrame and where they are
    prngSeed,          \* goruntime.prngSeed, its 8 bytes from the lowest up
    randomData,        \* every byte getRandomData has written, in order
    pageTable,         \* the mappings vmm.Map installed: page -> frame, flags
    reserved,          \* bytes handed out by vmm.EarlyReserveRegion so far
    sysStat,           \* the counter the sysStat arguments point to
    runtimeResult,     \* operation, arguments and result of the last goruntime call
    initSteps,         \* the functions goruntime.Init has called, in order
    cpu,               \* where the boot CPU executes: a label of rt0_64.s or a
                       \* statement of Kmain
    redirectTable,     \* _rt0_redirect_table as the post-link step filled it
    memory,            \* the bytes of the kernel text at the hooked symbols
    trampoline,        \* the 14 bytes at _rt0_redirect_trampoline
    regs,              \* rax, rdx of the installer; rdi, rbx of write_string;
                       \* ret: the statements of the entry stub executed
    calls,             \* the functions the boot path has called, in order
    kmainErr,          \* err, the local variable of Kmain
    panicValue,        \* the value Kmain panicked with, "nil" before
    vgaBuffer,         \* the words of the VGA text buffer at 0xb8000
    cons,              \* the fields of the VesaFbConsole
    fb,                \* cons.fb, the bytes of the mapped framebuffer
    consResult,        \* the last console call: its arguments, the framebuffer
                       \* before it, the offsets it read and wrote, the offsets
                       \* outside the framebuffer it indexed, and whether it
                       \* panicked
    consCalls          \* the console methods called, in order

lockVars == << mutex, threads >>

runtimeVars == << prngSeed, randomData, pageTable, reserved, sysStat,
                  runtimeResult, initSteps >>

bootVars == << cpu, redirectTable, memory, trampoline, regs, calls, kmainErr,
               panicValue, vgaBuffer >>

consoleVars == << cons, fb, consResult, consCalls >>

vars == << pc, mmap, bootMemAllocator, earlyFrames, earlyResult, bitmapAllocator,
           inheritedFrames, bitmapResult, outstanding, foreignFree, ops,
           memEvents, mutex, threads, prngSeed, randomData, pageTable, reserved, sysStat,
           runtimeResult, initSteps, cpu, redirectTable, memory, trampoline,
           regs, calls, kmainErr, panicValue, vgaBuffer, cons, fb, consResult,
           consCalls >>

bitmapVars == << bitmapAllocator, inheritedFrames, bitmapResult, outstanding,
                 foreignFree, ops, memEvents >>

(***************************************************************************)
(* BootMemAllocator                                                        *)
(***************************************************************************)
\* rounded-up first frame of a region
RegionStartFrame(region) ==
    ShiftPage(AlignDown(region.PhysAddress + pageSizeMinus1))

\* an end frame that is the frame after the region's last whole frame
RegionEndFrameExclusive(region) ==
    ShiftPage(AlignDown(region.PhysAddress + region.Length))

\* rounded-down last frame of a region
RegionEndFrame(region) ==
    ShiftPage(AlignDown(region.PhysAddress + region.Length)) - 1

\* an init whose kernelEndFrame is the frame after the kernel's last frame
BootMemInitEndExclusive(alloc, kernelStart, kernelEnd) ==
    [alloc EXCEPT
        !.kernelStartAddr = kernelStart,
        !.kernelEndAddr = kernelEnd,
        !.kernelStartFrame = ShiftPage(AlignDown(kernelStart)),
        !.kernelEndFrame = ShiftPage(AlignDown(kernelEnd + pageSizeMinus1))]

\* BootMemAllocator.init
BootMemInit(alloc, kernelStart, kernelEnd) ==
    [alloc EXCEPT
        !.kernelStartAddr = kernelStart,
        !.kernelEndAddr = kernelEnd,
        !.kernelStartFrame = ShiftPage(AlignDown(kernelStart)),
        !.kernelEndFrame = ShiftPage(AlignDown(kernelEnd + pageSizeMinus1)) - 1]

\* an adjustment that hands out the frame after the kernel image a second
\* time instead of moving on
NextAllocFrameNoAdvance(alloc, regionStartFrame, regionEndFrame) ==
    IF \/ /\ ULe(alloc.lastAllocFrame, regionStartFrame)
          /\ alloc.kernelStartFrame = regionStartFrame
       \/ /\ ULe(alloc.lastAllocFrame, regionEndFrame)
          /\ alloc.lastAllocFrame + 1 = alloc.kernelStartFrame
    THEN alloc.kernelEndFrame + 1
    ELSE IF ULt(alloc.lastAllocFrame, regionStartFrame) \/ alloc.allocCount = 0
    THEN regionStartFrame
    ELSE IF alloc.lastAllocFrame = alloc.kernelEndFrame + 1
    THEN alloc.lastAllocFrame
    ELSE alloc.lastAllocFrame + 1

\* the adjustment of lastAllocFrame the visitor makes inside a region that
\* is not yet used up
NextAllocFrame(alloc, regionStartFrame, regionEndFrame) ==
    IF \/ /\ ULe(alloc.lastAllocFrame, regionStartFrame)
          /\ alloc.kernelStartFrame = regionStartFrame
       \/ /\ ULe(alloc.lastAllocFrame, regionEndFrame)
          /\ alloc.lastAllocFrame + 1 = alloc.kernelStartFrame
    THEN alloc.kernelEndFrame + 1
    ELSE IF ULt(alloc.lastAllocFrame, regionStartFrame) \/ alloc.allocCount = 0
    THEN regionStartFrame
    ELSE alloc.lastAllocFrame + 1

\* the visitor of AllocFrame applied to the regions i, i+1, ... of the map
\* for as long as it returns true
RECURSIVE BootVisit(_, _, _)
BootVisit(alloc, map, i) ==
    IF i > Len(map) THEN [alloc |-> alloc, found |-> FALSE]
    ELSE IF map[i].Type # "MemAvailable" \/ map[i].Length < PageSize
    THEN BootVisit(alloc, map, i + 1)
    ELSE IF ~ULt(alloc.lastAllocFrame, RegionEndFrame(map[i]))
    THEN BootVisit(alloc, map, i + 1)
    ELSE LET next == NextAllocFrame(alloc, RegionStartFrame(map[i]),
                                    RegionEndFrame(map[i]))
             adjusted == [alloc EXCEPT !.lastAllocFrame = next]
         IN  IF ULt(RegionEndFrame(map[i]), next)
             THEN BootVisit(adjusted, map, i + 1)
             ELSE [alloc |-> adjusted, found |-> TRUE]

\* BootMemAllocator.AllocFrame: the allocator after the call, the frame and
\* the error returned
BootAllocFrame(alloc, map) ==
    LET v == BootVisit(alloc, map, 1)
    IN  IF v.found
        THEN [alloc |-> [v.alloc EXCEPT !.allocCount = @ + 1],
              frame |-> v.alloc.lastAllocFrame, err |-> "nil"]
        ELSE [alloc |-> v.alloc, frame |-> InvalidFrame,
              err |-> "errBootAllocOutOfMemory"]

\* a reset that forgets to rewind lastAllocFrame
BootResetCountOnly(alloc) == [alloc EXCEPT !.allocCount = 0]

\* reserveEarlyAllocatorFrames: bootMemAllocator.allocCount, lastAllocFrame = 0, 0
BootReset(alloc) == [alloc EXCEPT !.allocCount = 0, !.lastAllocFrame = 0]

\* the allocator after n further AllocFrame calls whose errors are ignored,
\* and the frames they returned, in order (the replay loop of
\* reserveEarlyAllocatorFrames).  The n calls are made in sequence; they are
\* evaluated as two halves to keep the evaluation shallow.
RECURSIVE BootReplay(_, _, _)
BootReplay(alloc, map, n) ==
    IF n = 0 THEN [alloc |-> alloc, frames |-> << >>]
    ELSE IF n = 1
    THEN LET r == BootAllocFrame(alloc, map)
         IN  [alloc |-> r.alloc, frames |-> << r.frame >>]
    ELSE LET first == BootReplay(alloc, map, n \div 2)
             rest == BootReplay(first.alloc, map, n - (n \div 2))
         IN  [frames |-> first.frames \o rest.frames, alloc |-> rest.alloc]

(***************************************************************************)
(* BitmapAllocator                                                         *)
(*                                                                         *)
(* A uint64 bitmap block is the set of the indices (0 = least significant) *)
(* of its 1 bits.  Pool indices and block indices count from 0 as in the   *)
(* source; a slice s is a sequence whose element i is s[i + 1].            *)
(***************************************************************************)
sizeofPool == 72

fullBlock == 0 .. 63

AvailableRegions(map) == SelectSeq(map, LAMBDA region : region.Type = "MemAvailable")

\* uint32(regionEndFrame - regionStartFrame)
PageCount(region) == RegionEndFrame(region) - RegionStartFrame(region)

\* ((pageCount + 63) &^ 63) >> 3: for the wrapped counts -1 and -2 the sum
\* is 62 resp. 61 and the result 0
BitmapBytes(pageCount) == ((pageCount + 63) - ((pageCount + 63) % 64)) \div 8

\* first pass of setupPoolBitmaps: alloc.totalPages += pageCount over the
\* available regions i, i+1, ...
RECURSIVE SumPageCount(_, _)
SumPageCount(regions, i) ==
    IF i > Len(regions) THEN 0
    ELSE PageCount(regions[i]) + SumPageCount(regions, i + 1)

\* first pass of setupPoolBitmaps: requiredBitmapBytes += ...
RECURSIVE SumBitmapBytes(_, _)
SumBitmapBytes(regions, i) ==
    IF i > Len(regions) THEN 0
    ELSE BitmapBytes(PageCount(regions[i])) + SumBitmapBytes(regions, i + 1)

TotalPages(map) == SumPageCount(AvailableRegions(map), 1)

RequiredBitmapBytes(map) == SumBitmapBytes(AvailableRegions(map), 1)

RequiredBytes(map) ==
    AlignDown(Len(AvailableRegions(map)) * sizeofPool + RequiredBitmapBytes(map)
              + pageSizeMinus1)

RequiredPages(map) == ShiftPage(RequiredBytes(map))

\* second pass of setupPoolBitmaps: the pool of one available region, its
\* bitmap carved from the zeroed region
NewPool(region) ==
    [startFrame |-> RegionStartFrame(region),
     endFrame |-> RegionEndFrame(region),
     freeCount |-> RegionEndFrame(region) - RegionStartFrame(region) + 1,
     freeBitmap |-> [b \in 1 .. (BitmapBytes(PageCount(region)) \div 8) |-> {}]]

NewPools(map) ==
    [i \in 1 .. Len(AvailableRegions(map)) |-> NewPool(AvailableRegions(map)[i])]

\* the pool-by-pool search of poolForFrame from pool index i on
RECURSIVE PoolSearch(_, _, _)
PoolSearch(pools, frame, i) ==
    IF i >= Len(pools) THEN 0 - 1
    ELSE IF ~ULt(frame, pools[i + 1].startFrame) /\ ULe(frame, pools[i + 1].endFrame)
    THEN i
    ELSE PoolSearch(pools, frame, i + 1)

\* poolForFrame
poolForFrame(alloc, frame) == PoolSearch(alloc.pools, frame, 0)

\* block index and bit of a frame in pool poolIndex:
\* relFrame >> 6 and 63 - (relFrame - block<<6)
blockOf(alloc, poolIndex, frame) ==
    (frame - alloc.pools[poolIndex + 1].startFrame) \div 64

bitOf(alloc, poolIndex, frame) ==
    63 - ((frame - alloc.pools[poolIndex + 1].startFrame) % 64)

\* an index expression freeBitmap[block] that is out of range panics; a
\* relFrame that wrapped below zero is a block index beyond every slice
blockInRange(alloc, poolIndex, frame) ==
    /\ ~ULt(frame, alloc.pools[poolIndex + 1].startFrame)
    /\ blockOf(alloc, poolIndex, frame) < Len(alloc.pools[poolIndex + 1].freeBitmap)

\* a release that clears the bit and leaves the two counters as they are
flipFrameBitOnly(alloc, poolIndex, frame, reserve) ==
    [alloc EXCEPT
        !.pools[poolIndex + 1].freeBitmap[blockOf(alloc, poolIndex, frame) + 1] =
            IF reserve THEN @ \cup {bitOf(alloc, poolIndex, frame)}
            ELSE @ \ {bitOf(alloc, poolIndex, frame)},
        !.pools[poolIndex + 1].freeCount = IF reserve THEN @ - 1 ELSE @,
        !.reservedPages = IF reserve THEN @ + 1 ELSE @]

\* a release that forgets to decrement reservedPages
flipFrameKeepReserved(alloc, poolIndex, frame, reserve) ==
    [alloc EXCEPT
        !.pools[poolIndex + 1].freeBitmap[blockOf(alloc, poolIndex, frame) + 1] =
            IF reserve THEN @ \cup {bitOf(alloc, poolIndex, frame)}
            ELSE @ \ {bitOf(alloc, poolIndex, frame)},
        !.pools[poolIndex + 1].freeCount = IF reserve THEN @ - 1 ELSE @ + 1,
        !.reservedPages = IF reserve THEN @ + 1 ELSE @]

\* the allocator with the bit of a frame set (reserve = TRUE) or cleared and
\* the counters updated
flipFrame(alloc, poolIndex, frame, reserve) ==
    [alloc EXCEPT
        !.pools[poolIndex + 1].freeBitmap[blockOf(alloc, poolIndex, frame) + 1] =
            IF reserve THEN @ \cup {bitOf(alloc, poolIndex, frame)}
            ELSE @ \ {bitOf(alloc, poolIndex, frame)},
        !.pools[poolIndex + 1].freeCount = IF reserve THEN @ - 1 ELSE @ + 1,
        !.reservedPages = IF reserve THEN @ + 1 ELSE @ - 1]

\* markFrame on m = [alloc, panic]: nothing is done once a panic is raised
markFrame(m, poolIndex, frame, reserve) ==
    IF m.panic THEN m
    ELSE IF poolIndex < 0 \/ ULt(m.alloc.pools[poolIndex + 1].endFrame, frame)
    THEN m
    ELSE IF ~blockInRange(m.alloc, poolIndex, frame)
    THEN [m EXCEPT !.panic = TRUE]
    ELSE [m EXCEPT !.alloc = flipFrame(m.alloc, poolIndex, frame, reserve)]

\* the loop of reserveKernelFrames over the frames lo .. hi, made in
\* sequence and evaluated as two halves
RECURSIVE MarkRange(_, _, _, _)
MarkRange(m, poolIndex, lo, hi) ==
    IF lo > hi THEN m
    ELSE IF lo = hi THEN markFrame(m, poolIndex, lo, TRUE)
    ELSE LET first == MarkRange(m, poolIndex, lo, (lo + hi) \div 2)
         IN  IF first.panic THEN first
             ELSE MarkRange(first, poolIndex, ((lo + hi) \div 2) + 1, hi)

\* a reservation loop that stops before kernelEndFrame
reserveKernelFramesShort(m, boot) ==
    MarkRange(m, poolForFrame(m.alloc, boot.kernelStartFrame),
              boot.kernelStartFrame, boot.kernelEndFrame - 1)

\* reserveKernelFrames
reserveKernelFrames(m, boot) ==
    MarkRange(m, poolForFrame(m.alloc, boot.kernelStartFrame),
              boot.kernelStartFrame, boot.kernelEndFrame)

\* the marking loop of reserveEarlyAllocatorFrames over frames[i], frames[i+1], ...
RECURSIVE MarkFrames(_, _, _)
MarkFrames(m, frames, i) ==
    IF i > Len(frames) \/ m.panic THEN m
    ELSE MarkFrames(markFrame(m, poolForFrame(m.alloc, frames[i]), frames[i], TRUE),
                    frames, i + 1)

\* a replay that makes one call fewer than allocCount
reserveEarlyAllocatorFramesShort(m, boot, map) ==
    LET replay == BootReplay(BootReset(boot), map,
                             IF boot.allocCount = 0 THEN 0 ELSE boot.allocCount - 1)
    IN  [m |-> MarkFrames(m, replay.frames, 1), boot |-> replay.alloc,
         frames |-> replay.frames]

\* reserveEarlyAllocatorFrames: the bitmap allocator, the bump allocator
\* after reset and replay, and the replayed frames
reserveEarlyAllocatorFrames(m, boot, map) ==
    LET replay == BootReplay(BootReset(boot), map, boot.allocCount)
    IN  [m |-> MarkFrames(m, replay.frames, 1), boot |-> replay.alloc,
         frames |-> replay.frames]

\* the page loop of setupPoolBitmaps from page index on: one bump
\* allocation and one vmm.Map per page; the Map of page failPage fails
\* the calls one round of the reserve loop of setupPoolBitmaps makes for the
\* page-th page of the region, in the order of its statements:
\* earlyAllocFrame, mapFn unless that failed, kernel.Memset unless that failed
setupRound(page, frame, allocErr, mapErr) ==
    IF allocErr # "nil"
    THEN << [op |-> "AllocFrame", page |-> page, frame |-> frame, err |-> allocErr] >>
    ELSE IF mapErr # "nil"
    THEN << [op |-> "AllocFrame", page |-> page, frame |-> frame, err |-> "nil"],
            [op |-> "Map", page |-> page, frame |-> frame, err |-> mapErr] >>
    ELSE << [op |-> "AllocFrame", page |-> page, frame |-> frame, err |-> "nil"],
            [op |-> "Map", page |-> page, frame |-> frame, err |-> "nil"],
            [op |-> "Memset", page |-> page, frame |-> frame, err |-> "nil"] >>

\* the error of the Map call for the page with this index
setupMapErr(index, failPage) ==
    IF index + 1 = failPage THEN "vmm: map exists" ELSE "nil"

RECURSIVE SetupLoop(_, _, _, _, _, _)
SetupLoop(boot, map, index, requiredPages, failPage, frames) ==
    IF index >= requiredPages THEN [boot |-> boot, frames |-> frames, err |-> "nil"]
    ELSE LET r == BootAllocFrame(boot, map)
         IN  IF r.err # "nil"
             THEN [boot |-> r.alloc, frames |-> frames, err |-> r.err]
             ELSE IF index + 1 = failPage
             THEN [boot |-> r.alloc, frames |-> Append(frames, r.frame),
                   err |-> setupMapErr(index, failPage)]
             ELSE SetupLoop(r.alloc, map, index + 1, requiredPages, failPage,
                            Append(frames, r.frame))

\* the calls of the rounds of that loop from the one for frames[k] on: a
\* round for each frame the bump allocator handed out, the last of them
\* with the failing Map if one failed, and after them the round of a
\* failing earlyAllocFrame if that ended the loop
RECURSIVE setupEvents(_, _, _, _)
setupEvents(frames, k, failPage, err) ==
    IF k > Len(frames)
    THEN IF err \in {"nil", setupMapErr(0, 1)} THEN << >>
         ELSE setupRound(k - 1, InvalidFrame, err, "nil")
    ELSE setupRound(k - 1, frames[k], "nil", setupMapErr(k - 1, failPage))
            \o setupEvents(frames, k + 1, failPage, err)

\* the first pass of setupPoolBitmaps: alloc.totalPages += pageCount
setupTotalPages(alloc, map) ==
    [alloc EXCEPT !.totalPages = @ + TotalPages(map)]

\* setupPoolBitmaps: reserveErr is the error of vmm.EarlyReserveRegion
setupPoolBitmaps(alloc, boot, map, reserveErr, failPage) ==
    IF reserveErr # "nil"
    THEN [alloc |-> setupTotalPages(alloc, map), boot |-> boot, frames |-> << >>,
          events |-> << >>, err |-> reserveErr]
    ELSE LET loop == SetupLoop(boot, map, 0, RequiredPages(map), failPage, << >>)
         IN  [alloc |-> IF loop.err = "nil"
                        THEN [setupTotalPages(alloc, map) EXCEPT !.pools = NewPools(map)]
                        ELSE setupTotalPages(alloc, map),
              boot |-> loop.boot, frames |-> loop.frames,
              events |-> setupEvents(loop.frames, 1, failPage, loop.err),
              err |-> loop.err]

\* the value BitmapAllocator.init leaves behind, from the outcomes of its
\* three steps: the two allocators, the frames the bump allocator handed out
\* to setupPoolBitmaps, the replayed frames, the error, and whether an index
\* out of range raised a panic
initResult(setup, kernel, early) ==
    IF setup.err # "nil"
    THEN [alloc |-> setup.alloc, boot |-> setup.boot, frames |-> setup.frames,
          replayed |-> << >>, err |-> setup.err, panic |-> FALSE]
    ELSE IF kernel.panic
    THEN [alloc |-> kernel.alloc, boot |-> setup.boot, frames |-> setup.frames,
          replayed |-> << >>, err |-> "nil", panic |-> TRUE]
    ELSE [alloc |-> early.m.alloc, boot |-> early.boot, frames |-> setup.frames,
          replayed |-> early.frames, err |-> "nil", panic |-> early.m.panic]

\* third step of BitmapAllocator.init: alloc.reserveEarlyAllocatorFrames()
initReserveEarly(setup, kernel, map) ==
    initResult(setup, kernel, reserveEarlyAllocatorFrames(kernel, setup.boot, map))

\* second step of BitmapAllocator.init: alloc.reserveKernelFrames()
initReserveKernel(setup, map) ==
    initReserveEarly(setup,
                     reserveKernelFrames([alloc |-> setup.alloc, panic |-> FALSE],
                                         setup.boot),
                     map)

\* BitmapAllocator.init: setupPoolBitmaps, then the two reservations
bitmapInit(alloc, boot, map, reserveErr, failPage) ==
    initReserveKernel(setupPoolBitmaps(alloc, boot, map, reserveErr, failPage), map)

Min(S) == CHOOSE x \in S : \A y \in S : x <= y

\* the pool scan of AllocFrame from pool poolIndex on
RECURSIVE AllocScan(_, _)
AllocScan(alloc, poolIndex) ==
    IF poolIndex >= Len(alloc.pools)
    THEN [alloc |-> alloc, frame |-> InvalidFrame, pool |-> 0 - 1,
          err |-> "errBitmapAllocOutOfMemory"]
    ELSE LET pool == alloc.pools[poolIndex + 1]
             open == { b \in 0 .. Len(pool.freeBitmap) - 1 :
                         pool.freeBitmap[b + 1] # fullBlock }
             blockIndex == Min(open)
             blockOffset == Min({ o \in 0 .. 63 : (63 - o) \notin pool.freeBitmap[blockIndex + 1] })
         IN  IF pool.freeCount = 0 \/ open = {}
             THEN AllocScan(alloc, poolIndex + 1)
             ELSE [alloc |-> [alloc EXCEPT
                                !.pools[poolIndex + 1].freeCount = @ - 1,
                                !.pools[poolIndex + 1].freeBitmap[blockIndex + 1] =
                                    @ \cup {63 - blockOffset},
                                !.reservedPages = @ + 1],
                   frame |-> pool.startFrame + (blockIndex * 64 + blockOffset),
                   pool |-> poolIndex, err |-> "nil"]

\* BitmapAllocator.AllocFrame
AllocFrame(alloc) == AllocScan(alloc, 0)

\* BitmapAllocator.FreeFrame
FreeFrame(alloc, frame) ==
    LET poolIndex == poolForFrame(alloc, frame)
    IN  IF poolIndex < 0
        THEN [alloc |-> alloc, err |-> "errBitmapAllocFrameNotManaged", panic |-> FALSE]
        ELSE IF ~blockInRange(alloc, poolIndex, frame)
        THEN [alloc |-> alloc, err |-> "nil", panic |-> TRUE]
        ELSE IF bitOf(alloc, poolIndex, frame) \notin
                  alloc.pools[poolIndex + 1].freeBitmap[blockOf(alloc, poolIndex, frame) + 1]
        THEN [alloc |-> alloc, err |-> "errBitmapAllocDoubleFree", panic |-> FALSE]
        ELSE [alloc |-> flipFrame(alloc, poolIndex, frame, FALSE), err |-> "nil",
              panic |-> FALSE]

(***************************************************************************)
(* Initial state and the boot phase                                        *)
(***************************************************************************)
\* the callers of the bitmap allocator; a caller is idle or inside one call
Threads == 1 .. NumThreads

IdleThread ==
    [pc |-> "idle", op |-> "none", frame |-> 0, pool |-> 0 - 1, err |-> "nil",
     held |-> {}]

\* the zero value of sync.Spinlock and no call in progress
LockInitial ==
    /\ mutex = 0
    /\ threads = [t \in Threads |-> IdleThread]

\* prngSeed = 0x0badc0de as an int of 64 bits, lowest byte first
SeedBytes == << 222, 192, 173, 11, 0, 0, 0, 0 >>

\* the record kept of the last goruntime call: what it was called with, what
\* it returned (failed: it took an early return), the vmm.Map calls it made,
\* the pages it zeroed, and *sysStat, the reservation cursor and the frame
\* allocator's reservedPages before it
NoCall ==
    [op |-> "none", virt |-> 0, size |-> 0, ret |-> 0, failed |-> FALSE,
     maps |-> << >>, zeroed |-> {}, stat0 |-> 0, reserved0 |-> 0,
     reservedPages0 |-> 0]

\* the goruntime package before any of its functions ran and an address
\* space without mappings
RuntimeInitial ==
    /\ prngSeed = SeedBytes
    /\ randomData = << >>
    /\ pageTable = {}
    /\ reserved = 0
    /\ sysStat = 0
    /\ runtimeResult = NoCall
    /\ initSteps = << >>

\* the length of the trampoline the installer copies (mov rcx, 14)
TrampolineLen == 14

\* _rt0_redirect_trampoline as assembled: jmp [rip+0], then dq 0
RedirectTrampoline == << 255, 37, 0, 0, 0, 0, 0, 0, 0, 0, 0, 0, 0, 0 >>

\* a 64-bit value below 2^32 as the 8 bytes a qword store writes, lowest first
QwordBytes(hi16, lo16) ==
    << lo16 % 256, lo16 \div 256, hi16 % 256, hi16 \div 256, 0, 0, 0, 0 >>

\* the addresses of the symbols the redirect table hooks: 0xA000, two
\* symbols 7 and 14 bytes after it, and 0xB000
SrcAddrs == { 40960, 40967, 40974, 45056 }

\* the addresses of the symbols calls are redirected to: 0xDEADBEEF, 0xCAFEBABE
DstAddrs == { QwordBytes(57005, 48879), QwordBytes(51966, 47806) }

\* the bytes of kernel text the installer can reach from a hooked symbol
TextAddrs == UNION { s .. s + TrampolineLen - 1 : s \in SrcAddrs }

\* the redirect table of the example: (0xA000, 0xDEADBEEF), (0xB000, 0xCAFEBABE)
ExampleTable ==
    << [src |-> 40960, dst |-> QwordBytes(57005, 48879)],
       [src |-> 45056, dst |-> QwordBytes(51966, 47806)] >>

\* err_kmain_returned: '[rt0_64] kmain returned', 0
err_kmain_returned ==
    << 91, 114, 116, 48, 95, 54, 52, 93, 32, 107, 109, 97, 105, 110, 32,
       114, 101, 116, 117, 114, 110, 101, 100, 0 >>

\* errKmainReturned of package kmain
errKmainReturned == "kmain: Kmain returned"

\* the physical address of the VGA text buffer and the attribute write_string
\* writes with (white on red)
VgaBase == 753664

VgaAttr == 79

\* the cells of the text buffer write_string can reach
VgaCells == { VgaBase + 2 * k : k \in 0 .. Len(err_kmain_returned) }

\* the boot CPU at _rt0_64_entry: the kernel text as linked (int3 filler
\* stands for the code of the hooked symbols), a blank screen
BootInitial ==
    /\ cpu = "_rt0_64_entry"
    /\ memory = [a \in TextAddrs |-> 204]
    /\ trampoline = RedirectTrampoline
    /\ regs = [rax |-> 0, rdx |-> 0, rdi |-> 0, rbx |-> 0, ret |-> 0]
    /\ calls = << >>
    /\ kmainErr = "nil"
    /\ panicValue = "nil"
    /\ vgaBuffer = [a \in VgaCells |-> 0]

\* NewVesaFbConsole(width, height, bpp, pitch, ...): no font, no logo, and
\* the framebuffer not mapped yet
NewVesaFbConsole(width, height, bpp, pitch) ==
    [bpp |-> bpp, bytesPerPixel |-> (bpp + 1) \div 8, width |-> width,
     height |-> height, offsetY |-> 0, pitch |-> pitch, font |-> 0,
     widthInChars |-> 0, heightInChars |-> 0, palette |-> << >>,
     defaultFg |-> 7, defaultBg |-> 0]

\* the record kept of a console call
ConsoleCall(op, args, fb0, run) ==
    [op |-> op, args |-> args, fb0 |-> fb0, reads |-> run.reads,
     writes |-> run.writes, outside |-> run.outside, panic |-> run.panic]

\* a call that touched nothing
NoAccess == [reads |-> {}, writes |-> {}, outside |-> {}, panic |-> FALSE]

\* no framebuffer was reported by the bootloader: the driver is not probed
ConsoleInitial ==
    /\ cons = NewVesaFbConsole(0, 0, 0, 0)
    /\ fb = << >>
    /\ consResult = ConsoleCall("none", << >>, << >>, NoAccess)
    /\ consCalls = << >>

Init ==
    /\ pc = "start"
    /\ mmap \in MemoryMaps
    /\ bootMemAllocator =
         [allocCount |-> 0, lastAllocFrame |-> 0,
          kernelStartAddr |-> 0, kernelEndAddr |-> 0,
          kernelStartFrame |-> 0, kernelEndFrame |-> 0]
    /\ earlyFrames = << >>
    /\ earlyResult = << >>
    /\ bitmapAllocator = [totalPages |-> 0, reservedPages |-> 0, pools |-> << >>]
    /\ inheritedFrames = << >>
    /\ bitmapResult = << >>
    /\ outstanding = {}
    /\ foreignFree = FALSE
    /\ ops = 0
    /\ memEvents = << >>
    /\ LockInitial
    /\ RuntimeInitial
    /\ BootInitial
    /\ ConsoleInitial
    /\ redirectTable = ExampleTable

\* pmm initialisation, first half: bootMemAllocator.init(kernelStart, kernelEnd)
PmmInit ==
    /\ pc = "start"
    /\ \E span \in KernelSpans(mmap) :
         bootMemAllocator' = BootMemInit(bootMemAllocator, span[1], span[2])
    /\ pc' = "boot"
    /\ UNCHANGED << mmap, earlyFrames, earlyResult >>
    /\ UNCHANGED bitmapVars
    /\ UNCHANGED << lockVars, runtimeVars, bootVars, consoleVars >>

\* a frame allocation made through the bump allocator during early boot
EarlyAllocFrame ==
    /\ pc = "boot"
    /\ LET r == BootAllocFrame(bootMemAllocator, mmap)
       IN  /\ bootMemAllocator' = r.alloc
           /\ earlyResult' = << r.frame, r.err >>
           /\ earlyFrames' = IF r.err = "nil" THEN Append(earlyFrames, r.frame)
                             ELSE earlyFrames
    /\ UNCHANGED << pc, mmap >>
    /\ UNCHANGED bitmapVars
    /\ UNCHANGED << lockVars, runtimeVars, bootVars, consoleVars >>

\* pmm initialisation, second half: bitmapAllocator.init(), after which the
\* bitmap allocator serves the frame allocations
BitmapInit ==
    /\ pc = "boot"
    /\ bootMemAllocator.allocCount <= MaxEarlyAllocs
    /\ \E reserveErr \in {"nil", "vmm: no address space"},
          failPage \in 0 .. RequiredPages(mmap) :
         LET r == bitmapInit(bitmapAllocator, bootMemAllocator, mmap, reserveErr,
                             failPage)
         IN  /\ bitmapAllocator' = r.alloc
             /\ bootMemAllocator' = r.boot
             /\ earlyFrames' = earlyFrames \o r.frames
             /\ inheritedFrames' = r.replayed
             /\ memEvents' = setupPoolBitmaps(bitmapAllocator, bootMemAllocator, mmap,
                                              reserveErr, failPage).events
             /\ pc' = IF r.panic THEN "panic"
                      ELSE IF r.err # "nil" THEN "initfailed" ELSE "bitmap"
             /\ bitmapResult' = << "init", 0, r.err >>
    /\ UNCHANGED << mmap, earlyResult, outstanding, foreignFree, ops >>
    /\ UNCHANGED << lockVars, runtimeVars, bootVars, consoleVars >>

\* the frames FreeFrame is called with
FreeCandidates ==
    (0 .. MaxFrame + 1) \cup outstanding
        \cup {bootMemAllocator.kernelStartFrame, bootMemAllocator.kernelEndFrame}

BitmapAllocFrame ==
    /\ pc = "bitmap"
    /\ ops < MaxOps
    /\ LET r == AllocFrame(bitmapAllocator)
       IN  /\ bitmapAllocator' = r.alloc
           /\ bitmapResult' = << "AllocFrame", r.frame, r.err >>
           /\ outstanding' = IF r.err = "nil" THEN outstanding \cup {r.frame}
                             ELSE outstanding
    /\ ops' = ops + 1
    /\ UNCHANGED << pc, mmap, bootMemAllocator, earlyFrames, earlyResult,
                    inheritedFrames, foreignFree, memEvents >>
    /\ UNCHANGED << lockVars, runtimeVars, bootVars, consoleVars >>

BitmapFreeFrame ==
    /\ pc = "bitmap"
    /\ ops < MaxOps
    /\ \E frame \in FreeCandidates :
         LET r == FreeFrame(bitmapAllocator, frame)
         IN  /\ bitmapAllocator' = r.alloc
             /\ bitmapResult' = << "FreeFrame", frame, r.err >>
             /\ pc' = IF r.panic THEN "panic" ELSE pc
             /\ outstanding' = IF r.err = "nil" /\ ~r.panic THEN outstanding \ {frame}
                               ELSE outstanding
             /\ foreignFree' = (foreignFree \/
                                  (r.err = "nil" /\ ~r.panic /\ frame \notin outstanding))
    /\ ops' = ops + 1
    /\ UNCHANGED << mmap, bootMemAllocator, earlyFrames, earlyResult, inheritedFrames,
                    memEvents >>
    /\ UNCHANGED << lockVars, runtimeVars, bootVars, consoleVars >>

Next ==
    \/ PmmInit
    \/ EarlyAllocFrame
    \/ BitmapInit
    \/ BitmapAllocFrame
    \/ BitmapFreeFrame

Spec == Init /\ [][Next]_vars

(***************************************************************************)
(* Concurrent callers of the bitmap allocator                              *)
(*                                                                         *)
(* After init any number of callers may be inside AllocFrame and FreeFrame *)
(* at once.  A call is Acquire, the scan of the pools (AllocFrame) or the  *)
(* look-up and test of the bit (FreeFrame), the update of the bitmap and   *)
(* the counters, and Release.  sync.Spinlock is a test-and-set word:       *)
(* Acquire returns once it changed the word from 0 to 1, Release stores 0. *)
(***************************************************************************)
\* the memory maps the concurrent callers run on
LockMaps ==
    { << FrameRegion(0, MaxFrame) >>,
      << FrameRegion(0, 1), FrameRegion(3, MaxFrame) >> }

LockInit == Init /\ mmap \in LockMaps

\* what no step of a caller changes
callerUnchanged ==
    UNCHANGED << mmap, bootMemAllocator, earlyFrames, earlyResult, inheritedFrames,
                 bitmapResult, outstanding, foreignFree, memEvents, runtimeVars,
                 bootVars, consoleVars >>

\* the frames some caller was handed and did not see freed since
HeldFrames == UNION { threads[t].held : t \in Threads }

\* a caller enters AllocFrame
CallAllocFrame(t) ==
    /\ pc = "bitmap"
    /\ ops < MaxOps
    /\ threads[t].pc = "idle"
    /\ threads' = [threads EXCEPT ![t].pc = "acquire", ![t].op = "AllocFrame",
                                  ![t].err = "nil"]
    /\ ops' = ops + 1
    /\ UNCHANGED << pc, bitmapAllocator, mutex >>
    /\ callerUnchanged

\* the frames of the pools that are free
UnusedFrames ==
    { f \in 0 .. MaxFrame :
        FreeFrame(bitmapAllocator, f).err = "errBitmapAllocDoubleFree" }

\* a caller enters FreeFrame with a frame some caller holds, with a frame
\* that is free or with a frame beyond every pool
CallFreeFrame(t) ==
    /\ pc = "bitmap"
    /\ ops < MaxOps
    /\ threads[t].pc = "idle"
    /\ \E frame \in HeldFrames \cup UnusedFrames \cup {MaxFrame + 1} :
         threads' = [threads EXCEPT ![t].pc = "acquire", ![t].op = "FreeFrame",
                                    ![t].frame = frame, ![t].err = "nil"]
    /\ ops' = ops + 1
    /\ UNCHANGED << pc, bitmapAllocator, mutex >>
    /\ callerUnchanged

\* an Acquire that does not wait for the lock to be free
AcquireNoWait(t) ==
    /\ pc = "bitmap"
    /\ threads[t].pc = "acquire"
    /\ mutex' = 1
    /\ threads' = [threads EXCEPT ![t].pc = "scan"]
    /\ UNCHANGED << pc, bitmapAllocator, ops >>
    /\ callerUnchanged

\* alloc.mutex.Acquire() returns: the lock was free and is now held
Acquire(t) ==
    /\ pc = "bitmap"
    /\ threads[t].pc = "acquire"
    /\ mutex = 0
    /\ mutex' = 1
    /\ threads' = [threads EXCEPT ![t].pc = "scan"]
    /\ UNCHANGED << pc, bitmapAllocator, ops >>
    /\ callerUnchanged

\* a scan that gives up the lock as soon as it has chosen its bit
AllocFrameScanUnlocking(t) ==
    /\ pc = "bitmap"
    /\ threads[t].pc = "scan"
    /\ threads[t].op = "AllocFrame"
    /\ threads' = [threads EXCEPT
                     ![t].pc = IF AllocFrame(bitmapAllocator).err = "nil"
                               THEN "update" ELSE "release",
                     ![t].frame = AllocFrame(bitmapAllocator).frame,
                     ![t].pool = AllocFrame(bitmapAllocator).pool,
                     ![t].err = AllocFrame(bitmapAllocator).err]
    /\ mutex' = 0
    /\ UNCHANGED << pc, bitmapAllocator, ops >>
    /\ callerUnchanged

\* AllocFrame scans the pools for the first zero bit
AllocFrameScan(t) ==
    /\ pc = "bitmap"
    /\ threads[t].pc = "scan"
    /\ threads[t].op = "AllocFrame"
    /\ threads' = [threads EXCEPT
                     ![t].pc = IF AllocFrame(bitmapAllocator).err = "nil"
                               THEN "update" ELSE "release",
                     ![t].frame = AllocFrame(bitmapAllocator).frame,
                     ![t].pool = AllocFrame(bitmapAllocator).pool,
                     ![t].err = AllocFrame(bitmapAllocator).err]
    /\ UNCHANGED << pc, bitmapAllocator, mutex, ops >>
    /\ callerUnchanged

\* a FreeFrame whose error paths return without Release
FreeFrameCheckNoRelease(t) ==
    /\ pc = "bitmap"
    /\ threads[t].pc = "scan"
    /\ threads[t].op = "FreeFrame"
    /\ ~FreeFrame(bitmapAllocator, threads[t].frame).panic
    /\ threads' = [threads EXCEPT
                     ![t].pc = IF FreeFrame(bitmapAllocator, threads[t].frame).err
                                    = "nil"
                               THEN "update" ELSE "idle",
                     ![t].pool = poolForFrame(bitmapAllocator, threads[t].frame),
                     ![t].err = FreeFrame(bitmapAllocator, threads[t].frame).err]
    /\ UNCHANGED << pc, bitmapAllocator, mutex, ops >>
    /\ callerUnchanged

\* FreeFrame looks up the pool of the frame and tests the frame's bit
FreeFrameCheck(t) ==
    /\ pc = "bitmap"
    /\ threads[t].pc = "scan"
    /\ threads[t].op = "FreeFrame"
    /\ IF FreeFrame(bitmapAllocator, threads[t].frame).panic
       THEN /\ pc' = "panic"
            /\ UNCHANGED threads
       ELSE /\ pc' = pc
            /\ threads' = [threads EXCEPT
                             ![t].pc = IF FreeFrame(bitmapAllocator, threads[t].frame).err
                                            = "nil"
                                       THEN "update" ELSE "release",
                             ![t].pool = poolForFrame(bitmapAllocator, threads[t].frame),
                             ![t].err = FreeFrame(bitmapAllocator, threads[t].frame).err]
    /\ UNCHANGED << bitmapAllocator, mutex, ops >>
    /\ callerUnchanged

\* the caller sets or clears the bit it chose and adjusts freeCount and
\* reservedPages
UpdateFrame(t) ==
    /\ pc = "bitmap"
    /\ threads[t].pc = "update"
    /\ bitmapAllocator' = flipFrame(bitmapAllocator, threads[t].pool, threads[t].frame,
                                    threads[t].op = "AllocFrame")
    /\ threads' = [threads EXCEPT ![t].pc = "release"]
    /\ UNCHANGED << pc, mutex, ops >>
    /\ callerUnchanged

\* alloc.mutex.Release() and the return to the caller: a frame returned by
\* AllocFrame is the caller's, a frame freed is nobody's
Release(t) ==
    /\ pc = "bitmap"
    /\ threads[t].pc = "release"
    /\ mutex' = 0
    /\ threads' =
         [u \in Threads |->
            [pc |-> IF u = t THEN "idle" ELSE threads[u].pc,
             op |-> threads[u].op,
             frame |-> threads[u].frame,
             pool |-> threads[u].pool,
             err |-> threads[u].err,
             held |-> IF threads[t].err # "nil" THEN threads[u].held
                      ELSE IF threads[t].op = "FreeFrame"
                      THEN threads[u].held \ {threads[t].frame}
                      ELSE IF u = t THEN threads[u].held \cup {threads[t].frame}
                      ELSE threads[u].held]]
    /\ UNCHANGED << pc, bitmapAllocator, ops >>
    /\ callerUnchanged

LockNext ==
    \/ PmmInit
    \/ BitmapInit
    \/ \E t \in Threads : CallAllocFrame(t)
    \/ \E t \in Threads : CallFreeFrame(t)
    \/ \E t \in Threads : Acquire(t)
    \/ \E t \in Threads : AllocFrameScan(t)
    \/ \E t \in Threads : FreeFrameCheck(t)
    \/ \E t \in Threads : UpdateFrame(t)
    \/ \E t \in Threads : Release(t)

LockSpec == LockInit /\ [][LockNext]_vars

(***************************************************************************)
(* goruntime: the shims the Go runtime is redirected to                    *)
(*                                                                         *)
(* Addresses and sizes are uintptr values far below 2^64.  The vmm and mm  *)
(* packages are not part of the sources: vmm.Map, vmm.EarlyReserveRegion,  *)
(* mm.PageFromAddress and mSysStatInc are modelled from their contracts.   *)
(***************************************************************************)
\* a size that is left as it is, so that the page count rounds down
RoundUpPageOmitted(size) == size

\* (size + mm.PageSize - 1) & ^(mm.PageSize - 1)
RoundUpPage(size) == AlignDown(size + pageSizeMinus1)

\* mm.PageFromAddress
PageFromAddress(addr) == ShiftPage(addr)

\* vmm.ReservedZeroedFrame, the frame vmm.Init set aside
ReservedZeroedFrame == MaxFrame + 2

\* the arena vmm.EarlyReserveRegion hands out ranges from
ArenaStart == 16 * PageSize

ArenaSize == (MaxPages + 1) * PageSize

\* vmm.EarlyReserveRegion(size): the next size bytes of the arena, or an
\* error when the arena is used up
EarlyReserveRegion(cursor, size) ==
    IF cursor + size > ArenaSize
    THEN [addr |-> 0, cursor |-> cursor, err |-> "vmm: no address space"]
    ELSE [addr |-> ArenaStart + cursor, cursor |-> cursor + size, err |-> "nil"]

\* vmm.Map(page, frame, flags): fails when the page is mapped already and
\* not as a copy-on-write template, or (fail) when no frame is left for an
\* intermediate table; otherwise the page's mapping is installed
vmmMap(pt, page, frame, flags, fail) ==
    IF fail THEN [pt |-> pt, err |-> "vmm: out of memory"]
    ELSE IF \E m \in pt : m.page = page /\ "FlagCopyOnWrite" \notin m.flags
    THEN [pt |-> pt, err |-> "vmm: map exists"]
    ELSE [pt |-> { m \in pt : m.page # page }
                    \cup {[page |-> page, frame |-> frame, flags |-> flags]},
          err |-> "nil"]

\* flags that leave out the copy-on-write marker
sysMapFlagsNoCopyOnWrite == {"FlagPresent", "FlagNoExecute"}

\* mapFlags of sysMap
sysMapFlags == {"FlagPresent", "FlagNoExecute", "FlagCopyOnWrite"}

\* the loop of sysMap from the call-th page on: the Map call number failAt
\* fails
RECURSIVE sysMapLoop(_, _, _, _, _, _)
sysMapLoop(pt, page, pageCount, call, failAt, maps) ==
    IF pageCount = 0 THEN [pt |-> pt, maps |-> maps, err |-> "nil"]
    ELSE LET m == vmmMap(pt, page, ReservedZeroedFrame, sysMapFlags, call = failAt)
         IN  IF m.err # "nil" THEN [pt |-> pt, maps |-> maps, err |-> m.err]
             ELSE sysMapLoop(m.pt, page + 1, pageCount - 1, call + 1, failAt,
                             Append(maps, [page |-> page, frame |-> ReservedZeroedFrame,
                                           flags |-> sysMapFlags]))

\* the end of sysMap: the null pointer, or mSysStatInc and the region start
sysMapReturn(loop, stat, regionStartAddr, regionSize) ==
    IF loop.err # "nil"
    THEN [pt |-> loop.pt, stat |-> stat, ret |-> 0, failed |-> TRUE, maps |-> loop.maps]
    ELSE [pt |-> loop.pt, stat |-> stat + regionSize, ret |-> regionStartAddr,
          failed |-> FALSE, maps |-> loop.maps]

\* sysMap(virtAddr, size, true, sysStat)
sysMap(pt, stat, virtAddr, size, failAt) ==
    sysMapReturn(sysMapLoop(pt, PageFromAddress(RoundUpPage(virtAddr)),
                            ShiftPage(RoundUpPage(size)), 1, failAt, << >>),
                 stat, RoundUpPage(virtAddr), RoundUpPage(size))

\* flags that leave the pages read-only
sysAllocFlagsReadOnly == {"FlagPresent", "FlagNoExecute"}

\* mapFlags of sysAlloc
sysAllocFlags == {"FlagPresent", "FlagNoExecute", "FlagRW"}

\* the loop of sysAlloc from the call-th page on: mm.AllocFrame, mapFn and
\* memsetFn for each page; the Map call number failAt fails
\* a loop body that zeroes the page before it maps it
sysAllocRoundZeroFirst(page, frame, allocErr, mapErr) ==
    IF allocErr # "nil"
    THEN << [op |-> "AllocFrame", page |-> page, frame |-> frame, err |-> allocErr] >>
    ELSE IF mapErr # "nil"
    THEN << [op |-> "AllocFrame", page |-> page, frame |-> frame, err |-> "nil"],
            [op |-> "Memset", page |-> page, frame |-> frame, err |-> "nil"],
            [op |-> "Map", page |-> page, frame |-> frame, err |-> mapErr] >>
    ELSE << [op |-> "AllocFrame", page |-> page, frame |-> frame, err |-> "nil"],
            [op |-> "Memset", page |-> page, frame |-> frame, err |-> "nil"],
            [op |-> "Map", page |-> page, frame |-> frame, err |-> "nil"] >>

\* the calls one round of the loop of sysAlloc makes for a page, in the order
\* of its statements: mm.AllocFrame, mapFn unless that failed, memsetFn
\* unless that failed
sysAllocRound(page, frame, allocErr, mapErr) ==
    IF allocErr # "nil"
    THEN << [op |-> "AllocFrame", page |-> page, frame |-> frame, err |-> allocErr] >>
    ELSE IF mapErr # "nil"
    THEN << [op |-> "AllocFrame", page |-> page, frame |-> frame, err |-> "nil"],
            [op |-> "Map", page |-> page, frame |-> frame, err |-> mapErr] >>
    ELSE << [op |-> "AllocFrame", page |-> page, frame |-> frame, err |-> "nil"],
            [op |-> "Map", page |-> page, frame |-> frame, err |-> "nil"],
            [op |-> "Memset", page |-> page, frame |-> frame, err |-> "nil"] >>

RECURSIVE sysAllocLoop(_, _, _, _, _, _, _, _, _)
sysAllocLoop(alloc, pt, page, pageCount, call, failAt, maps, zeroed, events) ==
    IF pageCount = 0
    THEN [alloc |-> alloc, pt |-> pt, maps |-> maps, zeroed |-> zeroed,
          events |-> events, err |-> "nil"]
    ELSE LET a == AllocFrame(alloc)
             m == vmmMap(pt, page, a.frame, sysAllocFlags, call = failAt)
         IN  IF a.err # "nil"
             THEN [alloc |-> a.alloc, pt |-> pt, maps |-> maps, zeroed |-> zeroed,
                   events |-> events \o sysAllocRound(page, a.frame, a.err, "nil"),
                   err |-> a.err]
             ELSE IF m.err # "nil"
             THEN [alloc |-> a.alloc, pt |-> pt, maps |-> maps, zeroed |-> zeroed,
                   events |-> events \o sysAllocRound(page, a.frame, "nil", m.err),
                   err |-> m.err]
             ELSE sysAllocLoop(a.alloc, m.pt, page + 1, pageCount - 1, call + 1, failAt,
                               Append(maps, [page |-> page, frame |-> a.frame,
                                             flags |-> sysAllocFlags]),
                               zeroed \cup {page},
                               events \o sysAllocRound(page, a.frame, "nil", "nil"))

\* the end of sysAlloc
sysAllocReturn(region, loop, stat, regionSize) ==
    IF loop.err # "nil"
    THEN [alloc |-> loop.alloc, pt |-> loop.pt, cursor |-> region.cursor, stat |-> stat,
          ret |-> 0, failed |-> TRUE, maps |-> loop.maps, zeroed |-> loop.zeroed,
          events |-> loop.events]
    ELSE [alloc |-> loop.alloc, pt |-> loop.pt, cursor |-> region.cursor,
          stat |-> stat + regionSize, ret |-> region.addr, failed |-> FALSE,
          maps |-> loop.maps, zeroed |-> loop.zeroed, events |-> loop.events]

\* sysAlloc once the region is reserved
sysAllocRegion(region, alloc, pt, stat, regionSize, failAt) ==
    IF region.err # "nil"
    THEN [alloc |-> alloc, pt |-> pt, cursor |-> region.cursor, stat |-> stat,
          ret |-> 0, failed |-> TRUE, maps |-> << >>, zeroed |-> {},
          events |-> << >>]
    ELSE sysAllocReturn(region,
                        sysAllocLoop(alloc, pt, PageFromAddress(region.addr),
                                     ShiftPage(regionSize), 1, failAt, << >>, {},
                                     << >>),
                        stat, regionSize)

\* sysAlloc(size, sysStat)
sysAlloc(alloc, pt, cursor, stat, size, failAt) ==
    sysAllocRegion(EarlyReserveRegion(cursor, RoundUpPage(size)), alloc, pt, stat,
                   RoundUpPage(size), failAt)

\* prngSeed * 58321 + 11113 in 64 bits, byte by byte from byte i on with
\* the carry of the lower bytes
RECURSIVE MulAdd(_, _, _)
MulAdd(seed, i, carry) ==
    IF i > Len(seed) THEN << >>
    ELSE << (seed[i] * 58321 + carry) % 256 >>
             \o MulAdd(seed, i + 1, (seed[i] * 58321 + carry) \div 256)

\* a generator that leaves out the increment
NextSeedNoIncrement(seed) == MulAdd(seed, 1, 0)

\* prngSeed = (prngSeed * 58321) + 11113
NextSeed(seed) == MulAdd(seed, 1, 11113)

\* byte((prngSeed >> 16) & 255)
SeedByte(seed) == seed[3]

\* getRandomData(r) with len(r) = n: the seed after the call and the bytes
\* written to r
RECURSIVE getRandomData(_, _)
getRandomData(seed, n) ==
    IF n = 0 THEN [seed |-> seed, r |-> << >>]
    ELSE [seed |-> getRandomData(NextSeed(seed), n - 1).seed,
          r |-> << SeedByte(NextSeed(seed)) >>
                  \o getRandomData(NextSeed(seed), n - 1).r]

\* an Init that sets the processor count before the interface tables
InitStatementSwapped(k) ==
    << "mallocInit", "algInit", "modulesInit", "typeLinksInit", "procResize(1)",
       "itabsInit", "initGoPackages", "return nil" >>[k]

\* the k-th statement of goruntime.Init: the function it calls
\* (SetCPUCount(1) calls procResizeFn(1))
InitStatement(k) ==
    << "mallocInit", "algInit", "modulesInit", "typeLinksInit", "itabsInit",
       "procResize(1)", "initGoPackages", "return nil" >>[k]

(***************************************************************************)
(* The kernel after pmm and vmm initialisation: the runtime shims are      *)
(* called, and Kmain calls goruntime.Init                                  *)
(***************************************************************************)
\* the boot the shims run after: frames 0..MaxFrame available, the kernel
\* image in frame 0
RuntimeMap == << FrameRegion(0, MaxFrame) >>

RuntimeBoot ==
    bitmapInit([totalPages |-> 0, reservedPages |-> 0, pools |-> << >>],
               BootMemInit([allocCount |-> 0, lastAllocFrame |-> 0,
                            kernelStartAddr |-> 0, kernelEndAddr |-> 0,
                            kernelStartFrame |-> 0, kernelEndFrame |-> 0],
                           0, PageSize),
               RuntimeMap, "nil", 0)

\* the calls of the reserve loop of that boot
RuntimeBootEvents ==
    setupPoolBitmaps([totalPages |-> 0, reservedPages |-> 0, pools |-> << >>],
                     BootMemInit([allocCount |-> 0, lastAllocFrame |-> 0,
                                  kernelStartAddr |-> 0, kernelEndAddr |-> 0,
                                  kernelStartFrame |-> 0, kernelEndFrame |-> 0],
                                 0, PageSize),
                     RuntimeMap, "nil", 0).events

RuntimeInit ==
    /\ pc = "runtime"
    /\ mmap = RuntimeMap
    /\ bootMemAllocator = RuntimeBoot.boot
    /\ earlyFrames = RuntimeBoot.frames
    /\ earlyResult = << >>
    /\ bitmapAllocator = RuntimeBoot.alloc
    /\ inheritedFrames = RuntimeBoot.replayed
    /\ bitmapResult = << "init", 0, "nil" >>
    /\ outstanding = {}
    /\ foreignFree = FALSE
    /\ ops = 0
    /\ memEvents = RuntimeBootEvents
    /\ LockInitial
    /\ RuntimeInitial
    /\ BootInitial
    /\ ConsoleInitial
    /\ redirectTable = ExampleTable

\* the sizes and addresses the shims are called with
ShimSizes == { 0, 1, PageSize, PageSize + 1, 3 * PageSize, MaxPages * PageSize }

SysMapAddrs == { 0, ArenaStart, ArenaStart + 1 }

\* the vmm.Map call of a shim call that fails: none, the first, the second
FailPoints == { 0, 1, 2 }

shimUnchanged ==
    UNCHANGED << mmap, bootMemAllocator, earlyFrames, earlyResult, inheritedFrames,
                 bitmapResult, outstanding, foreignFree, lockVars, bootVars,
                 consoleVars >>

\* a call of sysMap; with reserved = false it panics
SysMap ==
    /\ pc = "runtime"
    /\ ops < MaxOps
    /\ \E virtAddr \in SysMapAddrs, size \in ShimSizes, reservedArg \in BOOLEAN,
          failAt \in FailPoints :
         IF ~reservedArg
         THEN /\ pc' = "panic"
              /\ UNCHANGED << pageTable, sysStat, runtimeResult >>
         ELSE /\ pc' = pc
              /\ pageTable' = sysMap(pageTable, sysStat, virtAddr, size, failAt).pt
              /\ sysStat' = sysMap(pageTable, sysStat, virtAddr, size, failAt).stat
              /\ runtimeResult' =
                   [op |-> "sysMap", virt |-> virtAddr, size |-> size,
                    ret |-> sysMap(pageTable, sysStat, virtAddr, size, failAt).ret,
                    failed |-> sysMap(pageTable, sysStat, virtAddr, size, failAt).failed,
                    maps |-> sysMap(pageTable, sysStat, virtAddr, size, failAt).maps,
                    zeroed |-> {}, stat0 |-> sysStat, reserved0 |-> reserved,
                    reservedPages0 |-> bitmapAllocator.reservedPages]
    /\ ops' = ops + 1
    /\ UNCHANGED << bitmapAllocator, prngSeed, randomData, reserved, initSteps,
                    memEvents >>
    /\ shimUnchanged

\* a call of sysAlloc
SysAlloc ==
    /\ pc = "runtime"
    /\ ops < MaxOps
    /\ \E size \in ShimSizes, failAt \in FailPoints :
         /\ bitmapAllocator' =
              sysAlloc(bitmapAllocator, pageTable, reserved, sysStat, size, failAt).alloc
         /\ pageTable' =
              sysAlloc(bitmapAllocator, pageTable, reserved, sysStat, size, failAt).pt
         /\ reserved' =
              sysAlloc(bitmapAllocator, pageTable, reserved, sysStat, size, failAt).cursor
         /\ sysStat' =
              sysAlloc(bitmapAllocator, pageTable, reserved, sysStat, size, failAt).stat
         /\ memEvents' =
              sysAlloc(bitmapAllocator, pageTable, reserved, sysStat, size, failAt).events
         /\ runtimeResult' =
              [op |-> "sysAlloc", virt |-> 0, size |-> size,
               ret |-> sysAlloc(bitmapAllocator, pageTable, reserved, sysStat, size,
                                failAt).ret,
               failed |-> sysAlloc(bitmapAllocator, pageTable, reserved, sysStat, size,
                                   failAt).failed,
               maps |-> sysAlloc(bitmapAllocator, pageTable, reserved, sysStat, size,
                                 failAt).maps,
               zeroed |-> sysAlloc(bitmapAllocator, pageTable, reserved, sysStat, size,
                                   failAt).zeroed,
               stat0 |-> sysStat, reserved0 |-> reserved,
               reservedPages0 |-> bitmapAllocator.reservedPages]
    /\ ops' = ops + 1
    /\ UNCHANGED << pc, prngSeed, randomData, initSteps >>
    /\ shimUnchanged

\* a call of getRandomData with a buffer of n bytes
GetRandomData ==
    /\ pc = "runtime"
    /\ ops < MaxOps
    /\ \E n \in 0 .. MaxBuf :
         /\ prngSeed' = getRandomData(prngSeed, n).seed
         /\ randomData' = randomData \o getRandomData(prngSeed, n).r
         /\ runtimeResult' =
              [op |-> "getRandomData", virt |-> 0, size |-> n, ret |-> 0,
               failed |-> FALSE, maps |-> << >>, zeroed |-> {},
               stat0 |-> sysStat, reserved0 |-> reserved,
               reservedPages0 |-> bitmapAllocator.reservedPages]
    /\ ops' = ops + 1
    /\ UNCHANGED << pc, bitmapAllocator, pageTable, reserved, sysStat, initSteps,
                    memEvents >>
    /\ shimUnchanged

\* goruntime.Init has executed its return statement
InitReturned ==
    /\ Len(initSteps) > 0
    /\ initSteps[Len(initSteps)] = "return nil"

\* goruntime.Init executes its next statement
InitStep ==
    /\ pc = "runtime"
    /\ ~InitReturned
    /\ initSteps' = Append(initSteps, InitStatement(Len(initSteps) + 1))
    /\ UNCHANGED << pc, bitmapAllocator, ops, prngSeed, randomData, pageTable,
                    reserved, sysStat, runtimeResult, memEvents >>
    /\ shimUnchanged

RuntimeNext ==
    \/ SysMap
    \/ SysAlloc
    \/ GetRandomData
    \/ InitStep

RuntimeSpec == RuntimeInit /\ [][RuntimeNext]_vars

(***************************************************************************)
(* The boot path: _rt0_64_entry, the redirect installer, Kmain and the     *)
(* halt that follows a Kmain that returned                                 *)
(***************************************************************************)
\* the largest number of entries of the redirect table (NUM_REDIRECTS)
MaxRedirects == 2

RedirectEntries == { [src |-> s, dst |-> d] : s \in SrcAddrs, d \in DstAddrs }

\* the redirect tables of NUM_REDIRECTS = 0 .. MaxRedirects entries; the
\* hooked symbols of a table may lie closer together than the length of a
\* trampoline
RedirectTables ==
    UNION { [1 .. n -> RedirectEntries] : n \in 0 .. MaxRedirects }

\* what the 16 bytes after the last entry of the table may hold: the table
\* ends its section, so zeroes or whatever the linker placed next
PastTableEntries ==
    { [src |-> 0, dst |-> QwordBytes(0, 0)],
      [src |-> 40960, dst |-> QwordBytes(57005, 48879)] }

\* mov rdi, [rax]; mov rbx, [rax+8] with rax at the k-th entry
TableEntries(k) ==
    IF k <= Len(redirectTable) THEN {redirectTable[k]} ELSE PastTableEntries

\* the rounds of the installer's loop that are followed
MaxRounds == MaxRedirects + 1

\* mov qword [rsi+6], rbx: the trampoline with its target set to dst
patchTrampoline(tramp, dst) ==
    [k \in 1 .. TrampolineLen |-> IF k > 6 THEN dst[k - 6] ELSE tramp[k]]

\* rep movsb with rcx = 14: the trampoline copied over the code at src
copyTrampoline(mem, tramp, src) ==
    [a \in DOMAIN mem |->
       IF src <= a /\ a < src + TrampolineLen THEN tramp[a - src + 1] ELSE mem[a]]

\* an installer that copies the trampoline before it sets the target
installRedirectCopyFirst(mem, tramp, entry) ==
    [memory |-> copyTrampoline(mem, tramp, entry.src),
     trampoline |-> patchTrampoline(tramp, entry.dst)]

\* one round of the installer's loop: the target is set in the trampoline,
\* then the trampoline is copied over the hooked symbol
installRedirect(mem, tramp, entry) ==
    [memory |-> copyTrampoline(mem, patchTrampoline(tramp, entry.dst), entry.src),
     trampoline |-> patchTrampoline(tramp, entry.dst)]

\* an entry stub that calls Kmain before it installs the trampolines
EntryStatementKmainFirst(k) ==
    << "kernel.Kmain", "_rt0_install_redirect_trampolines",
       "_rt0_64_setup_go_runtime_structs", "write_string", "cli; hlt" >>[k]

\* the k-th statement of _rt0_64_entry
EntryStatement(k) ==
    << "_rt0_install_redirect_trampolines", "_rt0_64_setup_go_runtime_structs",
       "kernel.Kmain", "write_string", "cli; hlt" >>[k]

\* the registers a callee of the entry stub starts with: the installer loads
\* the table and NUM_REDIRECTS, write_string is passed err_kmain_returned and
\* loads the address of the text buffer
EntryRegs(stmt) ==
    IF stmt = "_rt0_install_redirect_trampolines"
    THEN [regs EXCEPT !.rax = 0, !.rdx = Len(redirectTable)]
    ELSE IF stmt = "write_string"
    THEN [regs EXCEPT !.rdi = 0, !.rbx = VgaBase]
    ELSE regs

\* the memory map and the kernel image Kmain is booted with
BootMaps == LockMaps

BootInit ==
    /\ pc = "start"
    /\ mmap \in BootMaps
    /\ bootMemAllocator =
         [allocCount |-> 0, lastAllocFrame |-> 0,
          kernelStartAddr |-> 0, kernelEndAddr |-> 0,
          kernelStartFrame |-> 0, kernelEndFrame |-> 0]
    /\ earlyFrames = << >>
    /\ earlyResult = << >>
    /\ bitmapAllocator = [totalPages |-> 0, reservedPages |-> 0, pools |-> << >>]
    /\ inheritedFrames = << >>
    /\ bitmapResult = << >>
    /\ outstanding = {}
    /\ foreignFree = FALSE
    /\ ops = 0
    /\ memEvents = << >>
    /\ LockInitial
    /\ RuntimeInitial
    /\ BootInitial
    /\ ConsoleInitial
    /\ redirectTable \in RedirectTables

pmmUnchanged ==
    UNCHANGED << pc, mmap, bootMemAllocator, earlyFrames, earlyResult, bitmapVars >>

\* the entry stub executes its next statement: a call, or cli; hlt
EntryStep ==
    /\ cpu = "_rt0_64_entry"
    /\ calls' = Append(calls, EntryStatement(regs.ret + 1))
    /\ cpu' = IF EntryStatement(regs.ret + 1) = "cli; hlt" THEN "halted"
              ELSE EntryStatement(regs.ret + 1)
    /\ regs' = [EntryRegs(EntryStatement(regs.ret + 1)) EXCEPT !.ret = regs.ret + 1]
    /\ UNCHANGED << redirectTable, memory, trampoline, kmainErr, panicValue,
                    vgaBuffer >>
    /\ pmmUnchanged
    /\ UNCHANGED << lockVars, runtimeVars, consoleVars >>

\* one round of the installer's loop, up to jnz; after the last round, ret.
\* The loop tests rdx after the body: dec rdx of 0 leaves 2^64 - 1, kept
\* here as -1
InstallRedirect ==
    /\ cpu = "_rt0_install_redirect_trampolines"
    /\ regs.rax < MaxRounds
    /\ \E entry \in TableEntries(regs.rax + 1) :
          /\ memory' = installRedirect(memory, trampoline, entry).memory
          /\ trampoline' = installRedirect(memory, trampoline, entry).trampoline
    /\ regs' = [regs EXCEPT !.rax = regs.rax + 1, !.rdx = regs.rdx - 1]
    /\ cpu' = IF regs.rdx - 1 # 0 THEN cpu ELSE "_rt0_64_entry"
    /\ UNCHANGED << redirectTable, calls, kmainErr, panicValue, vgaBuffer >>
    /\ pmmUnchanged
    /\ UNCHANGED << lockVars, runtimeVars, consoleVars >>

\* _rt0_64_setup_go_runtime_structs: g0, m0 and the TLS are set up; ret
SetupGoRuntimeStructs ==
    /\ cpu = "_rt0_64_setup_go_runtime_structs"
    /\ cpu' = "_rt0_64_entry"
    /\ UNCHANGED << redirectTable, memory, trampoline, regs, calls, kmainErr,
                    panicValue, vgaBuffer >>
    /\ pmmUnchanged
    /\ UNCHANGED << lockVars, runtimeVars, consoleVars >>

\* pmm.Init(kernelStart, kernelEnd): bootMemAllocator.init, then
\* bitmapAllocator.init, whose error it returns
pmmInit(alloc, boot, map, kernelStart, kernelEnd, reserveErr, failPage) ==
    bitmapInit(alloc, BootMemInit(boot, kernelStart, kernelEnd), map, reserveErr,
               failPage)

\* the calls of the reserve loop of the setupPoolBitmaps that pmm.Init runs
pmmInitEvents(reserveErr, failPage) ==
    setupPoolBitmaps(bitmapAllocator, BootMemInit(bootMemAllocator, 0, PageSize),
                     mmap, reserveErr, failPage).events

pmmInitCalls == << "pmm.Init", "bootMemAllocator.init", "bitmapAllocator.init" >>

\* the errors vmm.Init returns
VmmInitErrors == { "nil", "vmm: out of memory" }

\* goruntime.Init run to its return: the functions it called, and its result
goruntimeInit ==
    [steps |-> [k \in 1 .. 8 |-> InitStatement(k)], err |-> "nil"]

\* a Kmain that goes on to the next statement whatever an Init returned
kmainAfterIgnoringError(err, next) ==
    [cpu |-> next, panicValue |-> "nil"]

\* if err = <X>.Init(); err != nil { panic(err) }, else the next statement
kmainAfter(err, next) ==
    IF err # "nil" THEN [cpu |-> "panic", panicValue |-> err]
    ELSE [cpu |-> next, panicValue |-> "nil"]

\* Kmain up to its first error check: multiboot.SetInfoPtr and gate.Init
KmainEnter ==
    /\ cpu = "kernel.Kmain"
    /\ calls' = calls \o << "multiboot.SetInfoPtr", "gate.Init" >>
    /\ kmainErr' = "nil"
    /\ cpu' = "pmm.Init"
    /\ UNCHANGED << redirectTable, memory, trampoline, regs, panicValue, vgaBuffer >>
    /\ pmmUnchanged
    /\ UNCHANGED << lockVars, runtimeVars, consoleVars >>

\* err = pmm.Init(kernelStart, kernelEnd) and its check; the kernel image
\* occupies frame 0
KmainPmmInit ==
    /\ cpu = "pmm.Init"
    /\ \E reserveErr \in {"nil", "vmm: no address space"},
          failPage \in 0 .. RequiredPages(mmap) :
         LET r == pmmInit(bitmapAllocator, bootMemAllocator, mmap, 0, PageSize,
                          reserveErr, failPage)
         IN  /\ bitmapAllocator' = r.alloc
             /\ bootMemAllocator' = r.boot
             /\ earlyFrames' = r.frames
             /\ inheritedFrames' = r.replayed
             /\ memEvents' = pmmInitEvents(reserveErr, failPage)
             /\ bitmapResult' = << "init", 0, r.err >>
             /\ pc' = IF r.panic THEN "panic"
                      ELSE IF r.err # "nil" THEN "initfailed" ELSE "bitmap"
             /\ kmainErr' = IF r.panic THEN kmainErr ELSE r.err
             /\ cpu' = IF r.panic THEN "panic" ELSE kmainAfter(r.err, "vmm.Init").cpu
             /\ panicValue' = IF r.panic THEN "runtime error: index out of range"
                              ELSE kmainAfter(r.err, "vmm.Init").panicValue
    /\ calls' = calls \o pmmInitCalls
    /\ UNCHANGED << mmap, earlyResult, outstanding, foreignFree, ops >>
    /\ UNCHANGED << redirectTable, memory, trampoline, regs, vgaBuffer >>
    /\ UNCHANGED << lockVars, runtimeVars, consoleVars >>

\* err = vmm.Init(kernelPageOffset) and its check
KmainVmmInit ==
    /\ cpu = "vmm.Init"
    /\ \E err \in VmmInitErrors :
         /\ kmainErr' = err
         /\ cpu' = kmainAfter(err, "goruntime.Init").cpu
         /\ panicValue' = kmainAfter(err, "goruntime.Init").panicValue
    /\ calls' = Append(calls, "vmm.Init")
    /\ UNCHANGED << redirectTable, memory, trampoline, regs, vgaBuffer >>
    /\ pmmUnchanged
    /\ UNCHANGED << lockVars, runtimeVars, consoleVars >>

\* err = goruntime.Init() and its check
KmainGoruntimeInit ==
    /\ cpu = "goruntime.Init"
    /\ initSteps' = goruntimeInit.steps
    /\ kmainErr' = goruntimeInit.err
    /\ cpu' = kmainAfter(goruntimeInit.err, "hal.DetectHardware").cpu
    /\ panicValue' = kmainAfter(goruntimeInit.err, "hal.DetectHardware").panicValue
    /\ calls' = Append(calls, "goruntime.Init")
    /\ UNCHANGED << redirectTable, memory, trampoline, regs, vgaBuffer >>
    /\ pmmUnchanged
    /\ UNCHANGED << lockVars, prngSeed, randomData, pageTable, reserved, sysStat,
                    runtimeResult, consoleVars >>

\* the deferred function is registered and hal.DetectHardware is called; it
\* returns, or it never does
KmainDetectHardware ==
    /\ cpu = "hal.DetectHardware"
    /\ calls' = Append(calls, "hal.DetectHardware")
    /\ cpu' \in { "deferred", "running" }
    /\ UNCHANGED << redirectTable, memory, trampoline, regs, kmainErr, panicValue,
                    vgaBuffer >>
    /\ pmmUnchanged
    /\ UNCHANGED << lockVars, runtimeVars, consoleVars >>

\* a deferred handler that lets Kmain return without a panic
kmainDeferredSilent == "nil"

\* the value Kmain's deferred function hands to kfmt.Panic
kmainDeferred == errKmainReturned

\* Kmain returns: its deferred function calls kfmt.Panic(errKmainReturned),
\* which halts the CPU; a kfmt.Panic that returns lets Kmain return to the
\* entry stub
KmainDeferred ==
    /\ cpu = "deferred"
    /\ calls' = Append(calls, "kfmt.Panic")
    /\ panicValue' = kmainDeferred
    /\ cpu' \in { "panic", "_rt0_64_entry" }
    /\ UNCHANGED << redirectTable, memory, trampoline, regs, kmainErr, vgaBuffer >>
    /\ pmmUnchanged
    /\ UNCHANGED << lockVars, runtimeVars, consoleVars >>

\* a cell written without the attribute byte
vgaWordNoAttribute(al) == al

\* mov word [rbx], ax with ah = 0x4F: the attribute above the character
vgaWord(al) == VgaAttr * 256 + al

\* write_string.next_char: the character at rdi is written to the cell at
\* rbx, or it is the NUL and write_string returns
WriteString ==
    /\ cpu = "write_string"
    /\ IF err_kmain_returned[regs.rdi + 1] = 0
       THEN /\ cpu' = "_rt0_64_entry"
            /\ UNCHANGED << regs, vgaBuffer >>
       ELSE /\ vgaBuffer' = [vgaBuffer EXCEPT
                               ![regs.rbx] = vgaWord(err_kmain_returned[regs.rdi + 1])]
            /\ regs' = [regs EXCEPT !.rbx = regs.rbx + 2, !.rdi = regs.rdi + 1]
            /\ cpu' = cpu
    /\ UNCHANGED << redirectTable, memory, trampoline, calls, kmainErr, panicValue >>
    /\ pmmUnchanged
    /\ UNCHANGED << lockVars, runtimeVars, consoleVars >>

BootNext ==
    \/ EntryStep
    \/ InstallRedirect
    \/ SetupGoRuntimeStructs
    \/ KmainEnter
    \/ KmainPmmInit
    \/ KmainVmmInit
    \/ KmainGoruntimeInit
    \/ KmainDetectHardware
    \/ KmainDeferred
    \/ WriteString

BootSpec == BootInit /\ [][BootNext]_vars

(***************************************************************************)
(* Properties of the bump allocator                                        *)
(***************************************************************************)
KernelFrame(f) ==
    /\ ULe(bootMemAllocator.kernelStartFrame, f)
    /\ ULe(f, bootMemAllocator.kernelEndFrame)

\* the frames that lie wholly inside region i of the memory map
RegionFrames(i) == RegionStartFrame(mmap[i]) .. RegionEndFrame(mmap[i])

AvailableFrames ==
    UNION { RegionFrames(i) :
            i \in { j \in 1 .. Len(mmap) : mmap[j].Type = "MemAvailable" } }

\* the regions are listed in ascending order and do not overlap, and the
\* kernel image lies wholly inside or wholly outside available memory
PlausibleBoot ==
    /\ pc # "start"
    /\ \A i \in 1 .. Len(mmap) - 1 :
           mmap[i].PhysAddress + mmap[i].Length <= mmap[i + 1].PhysAddress
    /\ LET kernel == bootMemAllocator.kernelStartFrame ..
                        bootMemAllocator.kernelEndFrame
       IN  kernel \subseteq AvailableFrames \/ kernel \cap AvailableFrames = {}

\* C1: no frame returned by the bump allocator lies in
\* [kernelStartFrame, kernelEndFrame] (stated for the plausible boots, which
\* the claim includes)
C1_NoKernelFrame ==
    PlausibleBoot => \A k \in 1 .. Len(earlyFrames) : ~KernelFrame(earlyFrames[k])

\* C2: every frame returned by the bump allocator lies inside some region
\* of type Available (stated for the plausible boots, which the claim
\* includes)
C2_FrameInAvailableRegion ==
    PlausibleBoot => \A k \in 1 .. Len(earlyFrames) : earlyFrames[k] \in AvailableFrames

\* C3: the frames returned by successive successful bump allocations are
\* strictly increasing
C3_StrictlyIncreasing ==
    \A k \in 1 .. Len(earlyFrames) - 1 : ULt(earlyFrames[k], earlyFrames[k + 1])

C3_Witness ==
    /\ pc = "boot"
    /\ Len(earlyFrames) >= 3
    /\ earlyFrames[3] > earlyFrames[2] + 1
    /\ earlyResult[2] = "nil"

\* C4: after n successful bump allocations, resetting allocCount and
\* lastAllocFrame to 0 and allocating n times again returns the same n
\* frames in the same order
C4_ReplayDeterministic ==
    pc = "boot" =>
        BootReplay(BootReset(bootMemAllocator), mmap, Len(earlyFrames)).frames
            = earlyFrames

C4_Witness ==
    /\ pc = "boot"
    /\ Len(earlyFrames) >= 3
    /\ bootMemAllocator.lastAllocFrame > 0
    /\ \E k \in 1 .. Len(earlyFrames) - 1 : earlyFrames[k + 1] > earlyFrames[k] + 1

\* C5 as claimed: in scenario 1 the bump allocator returns 0 .. 0xFF and
\* then 0x102, 0x103, ..., skipping both 0x100 and 0x101
C5_Scenario1SkipsTwoFrames ==
    mmap = Scenario1Map =>
        \A k \in 1 .. Len(earlyFrames) :
            earlyFrames[k] = IF k <= 256 THEN k - 1 ELSE k + 1

\* C5 amended: in scenario 1 the kernel [0x100000, 0x101000) is the single
\* frame 0x100 and the bump allocator returns 0 .. 0xFF and then 0x101,
\* 0x102, ...: only frame 0x100 is skipped
C5_Scenario1SkipsKernelFrame ==
    mmap = Scenario1Map /\ pc = "boot" =>
        /\ bootMemAllocator.kernelStartFrame = 256
        /\ bootMemAllocator.kernelEndFrame = 256
        /\ \A k \in 1 .. Len(earlyFrames) :
               earlyFrames[k] = IF k <= 256 THEN k - 1 ELSE k

C5_Witness ==
    /\ mmap = Scenario1Map
    /\ Len(earlyFrames) >= 258
    /\ earlyFrames[257] = 257

\* C6: in scenario 2 the bump allocator returns exactly 0 .. 0xFF followed
\* by 0x200 .. 0x2FF, and then fails with the out of memory error
C6_Scenario2Sequence ==
    mmap = Scenario2Map /\ pc = "boot" =>
        /\ Len(earlyFrames) <= 512
        /\ \A k \in 1 .. Len(earlyFrames) :
               earlyFrames[k] = IF k <= 256 THEN k - 1 ELSE k + 255
        /\ earlyResult # << >> =>
               IF earlyResult[2] = "nil"
               THEN earlyResult[1] = earlyFrames[Len(earlyFrames)]
               ELSE /\ Len(earlyFrames) = 512
                    /\ earlyResult = << InvalidFrame, "errBootAllocOutOfMemory" >>

C6_Witness ==
    /\ mmap = Scenario2Map
    /\ Len(earlyFrames) = 512
    /\ earlyFrames[512] = 767
    /\ earlyResult = << InvalidFrame, "errBootAllocOutOfMemory" >>

(***************************************************************************)
(* Properties of the bitmap allocator                                      *)
(***************************************************************************)
RECURSIVE SumFreeCount(_, _)
SumFreeCount(pools, i) ==
    IF i > Len(pools) THEN 0 ELSE pools[i].freeCount + SumFreeCount(pools, i + 1)

\* the frames of pool i (counted from 1) and the frames whose bit is set
PoolFrames(i) ==
    bitmapAllocator.pools[i].startFrame .. bitmapAllocator.pools[i].endFrame

ManagedFrames == UNION { PoolFrames(i) : i \in 1 .. Len(bitmapAllocator.pools) }

FrameReserved(f) ==
    LET poolIndex == poolForFrame(bitmapAllocator, f)
    IN  /\ poolIndex >= 0
        /\ blockInRange(bitmapAllocator, poolIndex, f)
        /\ bitOf(bitmapAllocator, poolIndex, f) \in
             bitmapAllocator.pools[poolIndex + 1].freeBitmap[
                 blockOf(bitmapAllocator, poolIndex, f) + 1]

ReservedFrames == { f \in ManagedFrames : FrameReserved(f) }

KernelFrames ==
    bootMemAllocator.kernelStartFrame .. bootMemAllocator.kernelEndFrame

Range(seq) == { seq[k] : k \in 1 .. Len(seq) }

\* C7: after init and after every AllocFrame or FreeFrame the sum of the
\* pools' freeCount plus reservedPages equals totalPages
C7_CountersConsistent ==
    pc = "bitmap" =>
        SumFreeCount(bitmapAllocator.pools, 1) + bitmapAllocator.reservedPages
            = bitmapAllocator.totalPages

\* C8: after init totalPages is the number of frames contained in the
\* available regions, 0x200 in scenario 2
C8_TotalPagesCountsFrames ==
    pc = "bitmap" =>
        /\ bitmapAllocator.totalPages = Cardinality(AvailableFrames)
        /\ mmap = Scenario2Map => bitmapAllocator.totalPages = 512

\* C9 as claimed: after init every kernel frame that lies in a pool is
\* reserved, and unless a frame AllocFrame never returned was freed, AllocFrame
\* returns no kernel frame, also when the kernel image crosses from one pool
\* into the next (stated for kernel images wholly in available memory)
C9_KernelFramesReserved ==
    (pc = "bitmap" /\ PlausibleBoot /\ KernelFrames \subseteq ManagedFrames) =>
        /\ ops = 0 => (KernelFrames \cap ManagedFrames) \subseteq ReservedFrames
        /\ (~foreignFree /\ bitmapResult[1] = "AllocFrame" /\ bitmapResult[3] = "nil")
               => bitmapResult[2] \notin KernelFrames

KernelInOnePool ==
    \E i \in 1 .. Len(bitmapAllocator.pools) : KernelFrames \subseteq PoolFrames(i)

\* C9 amended: the same when the kernel image lies within a single pool
C9_KernelFramesReservedInOnePool ==
    (pc = "bitmap" /\ KernelInOnePool) =>
        /\ ops = 0 => KernelFrames \subseteq ReservedFrames
        /\ (~foreignFree /\ bitmapResult[1] = "AllocFrame" /\ bitmapResult[3] = "nil")
               => bitmapResult[2] \notin KernelFrames

C9_Witness ==
    /\ pc = "bitmap"
    /\ KernelInOnePool
    /\ ~foreignFree
    /\ bitmapResult = << "AllocFrame", bootMemAllocator.kernelEndFrame + 1, "nil" >>
    /\ KernelFrames \subseteq ReservedFrames
    /\ Cardinality(KernelFrames) = 2

\* C10: the n frames the bump allocator handed out before init finished are
\* the frames replayed by init; after init the reserved frames are those of
\* them that lie in a pool, besides kernel frames; unless a frame AllocFrame
\* never returned was freed, they stay reserved and AllocFrame returns none
\* of them; in scenario 2 with n = 3 reservedPages is 3 and the first
\* AllocFrame returns frame 3
C10_InheritsBumpFrames ==
    pc = "bitmap" =>
        /\ inheritedFrames = earlyFrames
        /\ ops = 0 =>
             /\ (Range(earlyFrames) \cap ManagedFrames) \subseteq ReservedFrames
             /\ ReservedFrames \ KernelFrames \subseteq Range(earlyFrames)
        /\ ~foreignFree =>
             /\ (Range(earlyFrames) \cap ManagedFrames) \subseteq ReservedFrames
             /\ (bitmapResult[1] = "AllocFrame" /\ bitmapResult[3] = "nil")
                    => bitmapResult[2] \notin Range(earlyFrames)
        /\ (mmap = Scenario2Map /\ Len(earlyFrames) = 3) =>
             /\ ops = 0 => bitmapAllocator.reservedPages = 3
             /\ (ops = 1 /\ bitmapResult[1] = "AllocFrame")
                    => bitmapResult = << "AllocFrame", 3, "nil" >>

C10_Witness ==
    /\ pc = "bitmap"
    /\ mmap = Scenario2Map
    /\ earlyFrames = << 0, 1, 2 >>
    /\ inheritedFrames = << 0, 1, 2 >>
    /\ bitmapAllocator.reservedPages = 4
    /\ bitmapResult = << "AllocFrame", 3, "nil" >>

\* C11: in every reachable state of the bitmap allocator a successful
\* AllocFrame followed at once by FreeFrame of the returned frame succeeds
\* and leaves every pool's bitmap and freeCount and reservedPages as they
\* were before the AllocFrame
C11_AllocThenFreeRestores ==
    pc = "bitmap" =>
        (AllocFrame(bitmapAllocator).err = "nil" =>
            FreeFrame(AllocFrame(bitmapAllocator).alloc,
                      AllocFrame(bitmapAllocator).frame)
                = [alloc |-> bitmapAllocator, err |-> "nil", panic |-> FALSE])

\* the second call freed the frame the first call allocated, in a pool
\* that already had reserved frames
C11_Witness ==
    /\ pc = "bitmap"
    /\ ops = 2
    /\ ~foreignFree
    /\ outstanding = {}
    /\ bitmapResult[1] = "FreeFrame"
    /\ bitmapResult[3] = "nil"
    /\ bitmapResult[2] > 0
    /\ AllocFrame(bitmapAllocator).frame = bitmapResult[2]

\* the frames of pool i (counted from 1) whose bit is not set
FreeFramesOf(i) == { f \in PoolFrames(i) : ~FrameReserved(f) }

PoolsWithFreeFrame ==
    { i \in 1 .. Len(bitmapAllocator.pools) : FreeFramesOf(i) # {} }

\* n AllocFrame calls in sequence: the allocator after them and the frames
\* and errors they returned
RECURSIVE AllocFrames(_, _)
AllocFrames(alloc, n) ==
    IF n = 0 THEN [alloc |-> alloc, frames |-> << >>]
    ELSE [alloc |-> AllocFrames(AllocFrame(alloc).alloc, n - 1).alloc,
          frames |-> << AllocFrame(alloc).frame >> \o
                       AllocFrames(AllocFrame(alloc).alloc, n - 1).frames]

\* FreeFrame of frames[i], frames[i-1], ..., frames[1]
RECURSIVE FreeFramesReversed(_, _, _)
FreeFramesReversed(alloc, frames, i) ==
    IF i = 0 THEN alloc
    ELSE FreeFramesReversed(FreeFrame(alloc, frames[i]).alloc, frames, i - 1)

\* C12: AllocFrame is first-fit: in every reachable state it returns the
\* lowest-numbered free frame of the first pool, in pool order, that has a
\* free frame; and in scenario 2 ten frames allocated and freed in reverse
\* order are returned again, in the same order, by the next ten allocations
C12_FirstFit ==
    pc = "bitmap" =>
        /\ IF PoolsWithFreeFrame = {}
           THEN AllocFrame(bitmapAllocator).err = "errBitmapAllocOutOfMemory"
           ELSE /\ AllocFrame(bitmapAllocator).err = "nil"
                /\ AllocFrame(bitmapAllocator).frame =
                       Min(FreeFramesOf(Min(PoolsWithFreeFrame)))
        /\ (mmap = Scenario2Map /\ ops = 0) =>
             /\ Len(AllocFrames(bitmapAllocator, 10).frames) = 10
             /\ AllocFrames(
                    FreeFramesReversed(AllocFrames(bitmapAllocator, 10).alloc,
                                       AllocFrames(bitmapAllocator, 10).frames, 10),
                    10).frames = AllocFrames(bitmapAllocator, 10).frames

\* C13: FreeFrame returns the not-managed error exactly when the frame lies
\* in no pool's range [startFrame, endFrame], the double-free error when
\* the frame lies in a pool and its bit is 0, and succeeds otherwise
C13_FreeFrameErrors ==
    pc = "bitmap" =>
        \A frame \in FreeCandidates :
            /\ ~FreeFrame(bitmapAllocator, frame).panic
            /\ FreeFrame(bitmapAllocator, frame).err =
                   IF frame \notin ManagedFrames THEN "errBitmapAllocFrameNotManaged"
                   ELSE IF ~FrameReserved(frame) THEN "errBitmapAllocDoubleFree"
                   ELSE "nil"

\* the frames of pool i that have a bit in the pool's bitmap and whose bit
\* is 0
ZeroBitFrames(i) ==
    { f \in PoolFrames(i) :
        /\ (f - bitmapAllocator.pools[i].startFrame) \div 64
               < Len(bitmapAllocator.pools[i].freeBitmap)
        /\ (63 - ((f - bitmapAllocator.pools[i].startFrame) % 64)) \notin
               bitmapAllocator.pools[i].freeBitmap[
                   ((f - bitmapAllocator.pools[i].startFrame) \div 64) + 1] }

\* C14: after init and after every AllocFrame or FreeFrame each pool's
\* freeCount is the number of zero bits of the pool's frames in its bitmap
C14_FreeCountIsZeroBits ==
    pc = "bitmap" =>
        \A i \in 1 .. Len(bitmapAllocator.pools) :
            bitmapAllocator.pools[i].freeCount = Cardinality(ZeroBitFrames(i))

(***************************************************************************)
(* Properties of the concurrent callers                                    *)
(***************************************************************************)
\* caller t is about to return a frame from AllocFrame
Returning(t) ==
    /\ threads[t].pc = "release"
    /\ threads[t].op = "AllocFrame"
    /\ threads[t].err = "nil"

\* C15: for every interleaving of concurrent AllocFrame and FreeFrame calls
\* no frame is returned to two AllocFrame callers without a successful
\* FreeFrame of that frame in between
C15_NoFrameHandedOutTwice ==
    \A t \in Threads :
        Returning(t) =>
            /\ threads[t].frame \notin HeldFrames
            /\ \A u \in Threads \ {t} :
                   Returning(u) => threads[u].frame # threads[t].frame

\* one caller is inside its critical section while another one waits in
\* Acquire, and a frame handed out earlier is still held
C15_Witness ==
    /\ pc = "bitmap"
    /\ mutex = 1
    /\ \E t \in Threads, u \in Threads :
         /\ t # u
         /\ Returning(t)
         /\ threads[u].pc = "acquire"
         /\ threads[u].op = "AllocFrame"

\* a step changes a pool's bitmap or freeCount, or reservedPages
PoolsMutated ==
    \/ bitmapAllocator'.reservedPages # bitmapAllocator.reservedPages
    \/ /\ Len(bitmapAllocator.pools) > 0
       /\ bitmapAllocator'.pools # bitmapAllocator.pools

\* C16 as claimed: every step that changes a pool's bitmap or freeCount or
\* reservedPages is taken with the spinlock held, the reservations of
\* kernel frames and replayed bump frames made by init included
C16_MutationsUnderLock == [][PoolsMutated => mutex = 1]_vars

\* C16 amended: AllocFrame and FreeFrame change the pools and reservedPages
\* only with the spinlock held; init makes its reservations without taking
\* the lock, before any caller has entered AllocFrame or FreeFrame
C16_MutationsUnderLockAfterInit ==
    [][PoolsMutated =>
          \/ /\ pc = "bitmap"
             /\ mutex = 1
             /\ \E t \in Threads : threads[t].pc = "update" /\ threads'[t].pc = "release"
          \/ /\ pc = "boot"
             /\ mutex = 0
             /\ ops = 0
             /\ \A t \in Threads : threads[t] = IdleThread]_vars

\* init reserved frames without the lock and a caller has since changed a
\* pool inside its critical section
C16_Witness ==
    /\ pc = "bitmap"
    /\ mutex = 1
    /\ bitmapResult = << "init", 0, "nil" >>
    /\ inheritedFrames # << >>
    /\ \E t \in Threads :
         /\ Returning(t)
         /\ bitmapAllocator.reservedPages > Len(inheritedFrames)

(***************************************************************************)
(* Properties of the goruntime shims                                       *)
(***************************************************************************)
\* ceil(size / 4096)
CeilPages(size) == (size + PageSize - 1) \div PageSize

\* C17: a successful sysMap(virt, size, true, sysStat) installs exactly
\* ceil(size/4096) mappings, on consecutive pages from the page of the
\* rounded-up virt, each to the reserved zeroed frame with the flags
\* Present, NoExecute and CopyOnWrite, and leaves *sysStat increased by the
\* size rounded up to pages; sysMap(0, 0x3000) maps exactly three pages
C17_SysMapInstallsMappings ==
    (runtimeResult.op = "sysMap" /\ ~runtimeResult.failed) =>
        /\ Len(runtimeResult.maps) = CeilPages(runtimeResult.size)
        /\ \A k \in 1 .. Len(runtimeResult.maps) :
               /\ runtimeResult.maps[k] =
                      [page |-> CeilPages(runtimeResult.virt) + (k - 1),
                       frame |-> ReservedZeroedFrame,
                       flags |-> {"FlagPresent", "FlagNoExecute", "FlagCopyOnWrite"}]
               /\ runtimeResult.maps[k] \in pageTable
        /\ sysStat = runtimeResult.stat0 + CeilPages(runtimeResult.size) * PageSize
        /\ (runtimeResult.virt = 0 /\ runtimeResult.size = 3 * PageSize) =>
               { runtimeResult.maps[k].page : k \in 1 .. Len(runtimeResult.maps) }
                   = {0, 1, 2}

C17_Witness ==
    /\ runtimeResult.op = "sysMap"
    /\ ~runtimeResult.failed
    /\ runtimeResult.virt = 0
    /\ runtimeResult.size = 3 * PageSize
    /\ Len(runtimeResult.maps) = 3
    /\ sysStat = 3 * PageSize

\* C18: a successful sysAlloc(size, sysStat) reserves a range of
\* ceil(size/4096) pages, maps every page of it with the flags Present, RW
\* and NoExecute to a frame of its own that the frame allocator handed out
\* in this call, zeroes every page, increases *sysStat by the rounded-up
\* size and returns the start of the range; a sysAlloc whose reservation,
\* frame allocation or mapping fails returns the null pointer
C18_SysAllocMapsOwnFrames ==
    runtimeResult.op = "sysAlloc" =>
        IF runtimeResult.failed THEN runtimeResult.ret = 0
        ELSE /\ reserved = runtimeResult.reserved0
                              + CeilPages(runtimeResult.size) * PageSize
             /\ runtimeResult.ret = ArenaStart + runtimeResult.reserved0
             /\ Len(runtimeResult.maps) = CeilPages(runtimeResult.size)
             /\ \A k \in 1 .. Len(runtimeResult.maps) :
                    /\ runtimeResult.maps[k].page
                           = (runtimeResult.ret \div PageSize) + (k - 1)
                    /\ runtimeResult.maps[k].flags
                           = {"FlagPresent", "FlagRW", "FlagNoExecute"}
                    /\ runtimeResult.maps[k] \in pageTable
                    /\ FrameReserved(runtimeResult.maps[k].frame)
                    /\ \A j \in 1 .. Len(runtimeResult.maps) :
                           j # k => runtimeResult.maps[j].frame
                                        # runtimeResult.maps[k].frame
             /\ bitmapAllocator.reservedPages
                    = runtimeResult.reservedPages0 + Len(runtimeResult.maps)
             /\ runtimeResult.zeroed
                    = { runtimeResult.maps[k].page : k \in 1 .. Len(runtimeResult.maps) }
             /\ sysStat = runtimeResult.stat0
                              + CeilPages(runtimeResult.size) * PageSize

C18_Witness ==
    /\ runtimeResult.op = "sysAlloc"
    /\ ~runtimeResult.failed
    /\ runtimeResult.ret = ArenaStart + PageSize
    /\ Len(runtimeResult.maps) = 2
    /\ runtimeResult.maps[1].frame # runtimeResult.maps[2].frame

\* the low 24 bits of s_i for s_0 = 0x0badc0de and
\* s_i = s_(i-1) * 58321 + 11113: they depend on the low 24 bits of s_(i-1)
\* alone and hold bits 16..23, the byte emitted
RECURSIVE LowSeed(_)
LowSeed(i) ==
    IF i = 0 THEN SeedBytes[1] + 256 * SeedBytes[2] + 65536 * SeedBytes[3]
    ELSE ((((LowSeed(i - 1) \div 4096) * 58321) % 4096) * 4096
             + (LowSeed(i - 1) % 4096) * 58321 + 11113) % 16777216

\* C19: the i-th byte getRandomData ever emitted is (s_i >> 16) & 0xFF, so
\* the bytes of successive calls are those of one call for all of them,
\* the seed is the one seed reached after that many bytes, and a call with
\* an empty buffer leaves the seed as it is
C19_RandomDataIsOneStream ==
    /\ \A i \in 1 .. Len(randomData) : randomData[i] = LowSeed(i) \div 65536
    /\ randomData = getRandomData(SeedBytes, Len(randomData)).r
    /\ prngSeed = getRandomData(SeedBytes, Len(randomData)).seed
    /\ Len(randomData) = 0 => prngSeed = SeedBytes

\* two calls, of one and of two bytes or the other way round, emitted the
\* first three bytes of the stream
C19_Witness ==
    /\ runtimeResult.op = "getRandomData"
    /\ ops = 2
    /\ runtimeResult.size > 0
    /\ randomData = << 223, 53, 38 >>

\* C20: goruntime.Init calls mallocInit, algInit, modulesInit,
\* typeLinksInit, itabsInit, procResize(1) and initGoPackages, each once and
\* in this order, and then returns nil
C20_InitOrder ==
    /\ Len(initSteps) <= 8
    /\ \A k \in 1 .. Len(initSteps) :
           initSteps[k] = << "mallocInit", "algInit", "modulesInit", "typeLinksInit",
                             "itabsInit", "procResize(1)", "initGoPackages",
                             "return nil" >>[k]

C20_Witness ==
    /\ Len(initSteps) = 8
    /\ initSteps[6] = "procResize(1)"
    /\ initSteps[8] = "return nil"

(***************************************************************************)
(* Properties of the boot path                                             *)
(***************************************************************************)
\* the position of the first call of a function in the trace, 0 without one
CallIndex(name) ==
    IF \E k \in 1 .. Len(calls) : calls[k] = name
    THEN Min({ k \in 1 .. Len(calls) : calls[k] = name })
    ELSE 0

\* b was called only after a call of a
CalledBefore(a, b) ==
    CallIndex(b) # 0 => (CallIndex(a) # 0 /\ CallIndex(a) < CallIndex(b))

\* C21: Kmain initialises in the order bump allocator, vmm.Init, bitmap
\* allocator, goruntime.Init: vmm.Init has completed when the bitmap
\* allocator's init begins, and goruntime.Init starts after that init
C21_InitChain ==
    /\ CalledBefore("bootMemAllocator.init", "vmm.Init")
    /\ CalledBefore("vmm.Init", "bitmapAllocator.init")
    /\ CalledBefore("bitmapAllocator.init", "goruntime.Init")

\* the Init calls of Kmain that follow the one that sets err
LaterInits ==
    IF calls[Len(calls)] = "bitmapAllocator.init"
    THEN { "vmm.Init", "goruntime.Init", "hal.DetectHardware" }
    ELSE IF calls[Len(calls)] = "vmm.Init"
    THEN { "goruntime.Init", "hal.DetectHardware" }
    ELSE { "hal.DetectHardware" }

\* C22: once an Init has returned a non-nil error to Kmain, Kmain has
\* panicked with that error, the failing Init is the last function called and
\* neither a later Init nor hal.DetectHardware was called
C22_InitErrorIsFatal ==
    kmainErr # "nil" =>
        /\ cpu = "panic"
        /\ panicValue = kmainErr
        /\ calls[Len(calls)] \in { "bitmapAllocator.init", "vmm.Init", "goruntime.Init" }
        /\ \A f \in LaterInits : CallIndex(f) = 0

\* vmm.Init returned an error and Kmain panicked with it
C22_Witness ==
    /\ cpu = "panic"
    /\ kmainErr = "vmm: out of memory"
    /\ panicValue = "vmm: out of memory"
    /\ calls[Len(calls)] = "vmm.Init"

\* the installer has returned to the entry stub
TrampolinesInstalled ==
    /\ regs.ret >= 1
    /\ cpu # "_rt0_install_redirect_trampolines"

\* no two entries of the table hook bytes of one another's 14-byte range
SourcesDisjoint ==
    \A i, j \in 1 .. Len(redirectTable) :
        i # j => \/ redirectTable[i].src + TrampolineLen <= redirectTable[j].src
                 \/ redirectTable[j].src + TrampolineLen <= redirectTable[i].src

\* the byte of kernel text at offset k of the symbol the i-th entry hooks
HookedByte(i, k) == memory[redirectTable[i].src + k]

\* C23: after the installer ran over a table with disjoint source ranges,
\* the 14 bytes at every entry's src are FF 25 00 00 00 00 and then the
\* entry's own dst, lowest byte first
C23_TrampolinesInstalled ==
    (TrampolinesInstalled /\ SourcesDisjoint) =>
        \A i \in 1 .. Len(redirectTable) :
            /\ << HookedByte(i, 0), HookedByte(i, 1), HookedByte(i, 2),
                  HookedByte(i, 3), HookedByte(i, 4), HookedByte(i, 5) >>
                 = << 255, 37, 0, 0, 0, 0 >>
            /\ \A k \in 1 .. 8 : HookedByte(i, 5 + k) = redirectTable[i].dst[k]

\* the example: quadword 0xDEADBEEF at 0xA006, 0xCAFEBABE at 0xB006
C23_Witness ==
    /\ TrampolinesInstalled
    /\ redirectTable = ExampleTable
    /\ << memory[40960], memory[40961] >> = << 255, 37 >>
    /\ << memory[40966], memory[40967], memory[40968], memory[40969],
          memory[40970] >> = << 239, 190, 173, 222, 0 >>
    /\ << memory[45062], memory[45063], memory[45064], memory[45065],
          memory[45066] >> = << 190, 186, 254, 202, 0 >>

\* the entry stub has called kernel.Kmain
KmainStarted == CallIndex("kernel.Kmain") # 0

\* the number of calls of a function in the trace
CallCount(name) == Cardinality({ k \in 1 .. Len(calls) : calls[k] = name })

\* when Kmain starts, the installer has gone through the whole table and
\* returned, then the runtime structures were set up, and Kmain is the third
\* call of the stub; the installer is never called twice
InstalledBeforeKmain ==
    /\ CallCount("_rt0_install_redirect_trampolines") <= 1
    /\ KmainStarted =>
         /\ CallIndex("_rt0_install_redirect_trampolines") = 1
         /\ CallIndex("_rt0_64_setup_go_runtime_structs") = 2
         /\ CallIndex("kernel.Kmain") = 3
         /\ CallCount("_rt0_install_redirect_trampolines") = 1
         /\ regs.rax = Len(redirectTable)
         /\ regs.rdx = 0

\* C24: the trampolines are installed once, before the runtime structures
\* are set up and before Kmain is called, and no step taken after Kmain
\* started changes a hooked symbol or the trampoline
C24_InstalledOnceBeforeKmain ==
    /\ []InstalledBeforeKmain
    /\ [][KmainStarted => (memory' = memory /\ trampoline' = trampoline)]_vars

\* Kmain runs over patched symbols
C24_Witness ==
    /\ cpu = "hal.DetectHardware"
    /\ KmainStarted
    /\ \A i \in 1 .. Len(redirectTable) : HookedByte(i, 0) = 255

\* hal.DetectHardware has returned and the deferred function has run
DetectHardwareReturned ==
    /\ CallIndex("hal.DetectHardware") # 0
    /\ cpu \notin { "deferred", "running" }

\* the text buffer holds '[rt0_64] kmain returned' from 0xb8000 on, one
\* word per character with 0x4F in its high byte, and nothing after it
MessageOnScreen ==
    /\ \A k \in 0 .. 22 :
         vgaBuffer[753664 + 2 * k] =
             20224 + << 91, 114, 116, 48, 95, 54, 52, 93, 32, 107, 109, 97, 105,
                        110, 32, 114, 101, 116, 117, 114, 110, 101, 100 >>[k + 1]
    /\ vgaBuffer[753664 + 2 * 23] = 0

\* a returned hal.DetectHardware ends in the panic with errKmainReturned;
\* a Kmain that came back to the stub is followed by write_string and
\* cli; hlt only, and the halted CPU shows the message
KmainReturnHandled ==
    /\ DetectHardwareReturned =>
         /\ panicValue = "kmain: Kmain returned"
         /\ CallIndex("kfmt.Panic") = CallIndex("hal.DetectHardware") + 1
    /\ cpu = "halted" =>
         /\ MessageOnScreen
         /\ calls[Len(calls) - 1] = "write_string"
         /\ calls[Len(calls)] = "cli; hlt"
         /\ calls[Len(calls) - 2] = "kfmt.Panic"

\* C25: a Kmain whose hal.DetectHardware returns panics with the
\* kmain-returned error; if it comes back to the entry stub, the stub writes
\* the message with attribute 0x4F up to the NUL and halts, and the halted
\* CPU takes no further step
C25_KmainNeverReturns ==
    /\ []KmainReturnHandled
    /\ [][cpu # "halted"]_vars

\* the stub halted after a Kmain that returned
C25_Witness ==
    /\ cpu = "halted"
    /\ panicValue = "kmain: Kmain returned"
    /\ vgaBuffer[753664] = 20315
    /\ regs.rdi = 23

(***************************************************************************)
(* Further properties of the bitmap allocator                              *)
(***************************************************************************)
\* some pool counts a free frame
SomePoolHasFreeFrame ==
    \E i \in 1 .. Len(bitmapAllocator.pools) : bitmapAllocator.pools[i].freeCount # 0

\* C26: whenever some pool has freeCount > 0, AllocFrame returns a frame of
\* a pool and not the out-of-memory error
C26_OutOfMemoryOnlyWhenFull ==
    (pc = "bitmap" /\ SomePoolHasFreeFrame) =>
        /\ AllocFrame(bitmapAllocator).err = "nil"
        /\ AllocFrame(bitmapAllocator).frame \in ManagedFrames

\* the number of 64-bit blocks of the bitmap of pool i
BlockCount(i) == Len(bitmapAllocator.pools[i].freeBitmap)

\* C27: after init the bitmap of every pool has a block for every frame of
\* the pool: (f - startFrame) / 64 is below the number of blocks, so that
\* markFrame and FreeFrame index inside the bitmap
C27_BitForEveryFrame ==
    pc = "bitmap" =>
        \A i \in 1 .. Len(bitmapAllocator.pools) :
            \A f \in PoolFrames(i) :
                /\ (f - bitmapAllocator.pools[i].startFrame) \div 64 < BlockCount(i)
                /\ ~FreeFrame(bitmapAllocator, f).panic

\* the regions the bump allocator's AllocFrame does not pass over:
\* Available and at least one page long
BumpRegions ==
    SelectSeq(mmap, LAMBDA region :
                      region.Type = "MemAvailable" /\ region.Length >= PageSize)

\* pool i spans at least one frame and all its frames lie wholly inside the
\* i-th Available region of the memory map (a frame number that wrapped
\* below zero lies in no region)
PoolInsideRegion(i) ==
    /\ 0 <= bitmapAllocator.pools[i].startFrame
    /\ bitmapAllocator.pools[i].startFrame <= bitmapAllocator.pools[i].endFrame
    /\ AvailableRegions(mmap)[i].PhysAddress
           <= bitmapAllocator.pools[i].startFrame * PageSize
    /\ (bitmapAllocator.pools[i].endFrame + 1) * PageSize
           <= AvailableRegions(mmap)[i].PhysAddress + AvailableRegions(mmap)[i].Length

\* C28: for every memory map the pools init created have startFrame <=
\* endFrame and hold only frames wholly inside their region, and there is one
\* pool for each region the bump allocator allocates from and no other
C28_PoolsAreWholeFrames ==
    pc = "bitmap" =>
        /\ \A i \in 1 .. Len(bitmapAllocator.pools) : PoolInsideRegion(i)
        /\ Len(bitmapAllocator.pools) = Len(BumpRegions)

\* the sum of all pools' freeCount plus reservedPages
CounterTotal(alloc) == SumFreeCount(alloc.pools, 1) + alloc.reservedPages

\* the freeCount of exactly one pool changed, by delta
OnePoolMoved(delta) ==
    \E i \in 1 .. Len(bitmapAllocator.pools) :
        /\ bitmapAllocator'.pools[i].freeCount
               = bitmapAllocator.pools[i].freeCount + delta
        /\ \A j \in 1 .. Len(bitmapAllocator.pools) :
               j # i => bitmapAllocator'.pools[j].freeCount
                            = bitmapAllocator.pools[j].freeCount

\* the counters are as they were
CountersKept ==
    /\ bitmapAllocator'.reservedPages = bitmapAllocator.reservedPages
    /\ \A j \in 1 .. Len(bitmapAllocator.pools) :
           bitmapAllocator'.pools[j].freeCount = bitmapAllocator.pools[j].freeCount

\* the step is a call of the bitmap allocator that returned nil
CallSucceeded(op) ==
    /\ bitmapResult'[1] = op
    /\ bitmapResult'[3] = "nil"
    /\ pc' = "bitmap"

\* C29: every AllocFrame and FreeFrame call leaves the sum of the pools'
\* freeCount and reservedPages unchanged; a successful AllocFrame takes one
\* from one pool's freeCount and adds it to reservedPages, a successful
\* FreeFrame does the reverse, a failed call changes no counter
C29_CountersConserved ==
    [][pc = "bitmap" =>
         /\ Len(bitmapAllocator'.pools) = Len(bitmapAllocator.pools)
         /\ CounterTotal(bitmapAllocator') = CounterTotal(bitmapAllocator)
         /\ CallSucceeded("AllocFrame") =>
                /\ bitmapAllocator'.reservedPages = bitmapAllocator.reservedPages + 1
                /\ OnePoolMoved(0 - 1)
         /\ CallSucceeded("FreeFrame") =>
                /\ bitmapAllocator'.reservedPages = bitmapAllocator.reservedPages - 1
                /\ OnePoolMoved(1)
         /\ ~(CallSucceeded("AllocFrame") \/ CallSucceeded("FreeFrame")) =>
                CountersKept]_vars

\* a frame was allocated and then freed again
C29_Witness ==
    /\ pc = "bitmap"
    /\ ops = 2
    /\ bitmapResult[1] = "FreeFrame"
    /\ bitmapResult[3] = "nil"
    /\ ~foreignFree
    /\ outstanding = {}

\* caller t is inside a call and past alloc.mutex.Acquire()
InsideCall(t) == threads[t].pc \in { "scan", "update", "release" }

\* the step is the return of caller t from AllocFrame or FreeFrame
Returns(t) == threads[t].pc # "idle" /\ threads'[t].pc = "idle"

\* the step is the update made by a call that goes on to return nil
SuccessfulUpdate ==
    \E t \in Threads :
        /\ threads[t].pc = "update"
        /\ threads[t].err = "nil"
        /\ threads'[t].pc = "release"
        /\ threads'[t].err = "nil"

\* C30: no step of a call that returns OutOfMemory, NotManaged or DoubleFree
\* changes a bitmap, a freeCount or reservedPages (the allocator changes in
\* the update of a successful call only), a call returns the error it found,
\* and when a call returns, with or without error, the spinlock is released
C30_FailedCallChangesNothing ==
    [][pc = "bitmap" =>
         /\ bitmapAllocator' # bitmapAllocator => SuccessfulUpdate
         /\ \A t \in Threads :
              /\ (InsideCall(t) /\ threads'[t].err # "nil") =>
                     bitmapAllocator' = bitmapAllocator
              /\ (InsideCall(t) /\ threads[t].err # "nil") =>
                     /\ threads[t].pc = "release"
                     /\ threads'[t].pc \in { "release", "idle" }
                     /\ threads'[t].err = threads[t].err
              /\ Returns(t) => mutex' = 0]_vars

\* a FreeFrame of a free frame has returned DoubleFree and the lock is free
C30_Witness ==
    /\ mutex = 0
    /\ \E t \in Threads :
         /\ threads[t].pc = "idle"
         /\ threads[t].op = "FreeFrame"
         /\ threads[t].err = "errBitmapAllocDoubleFree"

(***************************************************************************)
(* The two reserve loops in one run: the bitmap allocator hosts its own    *)
(* bitmaps during pmm initialisation, and sysAlloc runs on it afterwards   *)
(***************************************************************************)
\* Kmain goes on from pmm.Init to goruntime.Init: from here the runtime
\* calls its shims
StartRuntime ==
    /\ pc = "bitmap"
    /\ pc' = "runtime"
    /\ UNCHANGED << mmap, bootMemAllocator, earlyFrames, earlyResult >>
    /\ UNCHANGED bitmapVars
    /\ UNCHANGED << lockVars, runtimeVars, bootVars, consoleVars >>

ReserveNext ==
    \/ PmmInit
    \/ BitmapInit
    \/ StartRuntime
    \/ SysAlloc

ReserveSpec == LockInit /\ [][ReserveNext]_vars

\* the k-th call of a reserve loop succeeded and was this operation
EventIs(ev, k, op) ==
    /\ k \in 1 .. Len(ev)
    /\ ev[k].op = op
    /\ ev[k].err = "nil"

\* every Memset directly follows the successful Map of its page, every Map
\* directly follows the successful AllocFrame of its frame, and every
\* successful Map is directly followed by the Memset of its page
RoundsInOrder(ev) ==
    \A k \in 1 .. Len(ev) :
       /\ ev[k].op = "Memset" =>
            /\ EventIs(ev, k - 1, "Map")
            /\ ev[k - 1].page = ev[k].page
       /\ ev[k].op = "Map" =>
            /\ EventIs(ev, k - 1, "AllocFrame")
            /\ ev[k - 1].page = ev[k].page
            /\ ev[k - 1].frame = ev[k].frame
       /\ EventIs(ev, k, "Map") =>
            /\ EventIs(ev, k + 1, "Memset")
            /\ ev[k + 1].page = ev[k].page
       /\ EventIs(ev, k, "AllocFrame") /\ k < Len(ev) => ev[k + 1].op = "Map"

\* the pages a reserve loop zeroed
MemsetPages(ev) == { ev[k].page : k \in { j \in 1 .. Len(ev) : ev[j].op = "Memset" } }

\* no page is written before a Map call of that page has succeeded
NoWriteBeforeMap(ev) ==
    \A k \in 1 .. Len(ev) :
       ev[k].op = "Memset" =>
          \E j \in 1 .. k - 1 : EventIs(ev, j, "Map") /\ ev[j].page = ev[k].page

\* C31: in sysAlloc and in the self-hosting reserve loop of setupPoolBitmaps
\* the calls made for each page of the reserved range come in the order
\* AllocFrame, Map, Memset, no page is zeroed before its Map call succeeded,
\* and a sysAlloc that succeeds has done so for every page of its range
C31_AllocMapZeroOrder ==
    /\ RoundsInOrder(memEvents)
    /\ NoWriteBeforeMap(memEvents)
    /\ (runtimeResult.op = "sysAlloc" /\ ~runtimeResult.failed) =>
          MemsetPages(memEvents) =
             { PageFromAddress(runtimeResult.ret) + i :
                 i \in 0 .. CeilPages(runtimeResult.size) - 1 }

\* C31 witness: after a boot whose self-hosting loop mapped and zeroed a
\* page, a sysAlloc of two pages or more allocated, mapped and zeroed them
C31_Witness ==
    /\ earlyFrames # << >>
    /\ runtimeResult.op = "sysAlloc"
    /\ ~runtimeResult.failed
    /\ Len(memEvents) >= 6
    /\ EventIs(memEvents, 6, "Memset")

\* the last call was a sysMap or a sysAlloc that returned the null pointer
ShimFailed ==
    /\ runtimeResult.op \in {"sysMap", "sysAlloc"}
    /\ runtimeResult.failed

\* C32: a sysAlloc or sysMap that returns the null pointer leaves *sysStat
\* as it was, leaves none of the mappings it installed in the page table
\* and, for sysAlloc, leaves the frame allocator with as many reserved
\* frames as before the call
C32_FailedShimHasNoEffect ==
    ShimFailed =>
        /\ sysStat = runtimeResult.stat0
        /\ \A k \in 1 .. Len(runtimeResult.maps) :
               runtimeResult.maps[k] \notin pageTable
        /\ runtimeResult.op = "sysAlloc" =>
               bitmapAllocator.reservedPages = runtimeResult.reservedPages0

\* the pages that hold the byte addresses virt .. virt + size - 1
PagesOfRange(virt, size) ==
    IF size = 0 THEN {}
    ELSE PageFromAddress(virt) .. PageFromAddress(virt + size - 1)

\* C33: after a successful sysMap(virt, size, ...) every byte address in
\* [virt, virt + size) lies in a page this call mapped, also for a virt that
\* is not page-aligned, and the pointer returned is virt
C33_SysMapCoversRange ==
    (runtimeResult.op = "sysMap" /\ ~runtimeResult.failed) =>
        /\ runtimeResult.ret = runtimeResult.virt
        /\ PagesOfRange(runtimeResult.virt, runtimeResult.size) \subseteq
              { runtimeResult.maps[k].page : k \in 1 .. Len(runtimeResult.maps) }

\* the installer has been called and is back in the entry stub
InstallerReturned ==
    /\ regs.ret >= 1
    /\ cpu # "_rt0_install_redirect_trampolines"

\* C34: for every table length NUM_REDIRECTS >= 0 the installer reads no
\* entry beyond the table, has patched exactly NUM_REDIRECTS entries when it
\* returns, and for an empty table patches nothing: the kernel text and the
\* trampoline stay as they were loaded
C34_InstallerStaysInsideTable ==
    /\ regs.rax <= Len(redirectTable)
    /\ InstallerReturned => regs.rax = Len(redirectTable)
    /\ Len(redirectTable) = 0 =>
          /\ memory = [a \in TextAddrs |-> 204]
          /\ trampoline = RedirectTrampoline

(***************************************************************************)
(* VesaFbConsole: the console on a VESA linear framebuffer, after          *)
(* DriverInit has mapped the framebuffer and loaded the default palette    *)
(***************************************************************************)
\* the framebuffers the bootloader reports: 8 bpp with rows of 4 bytes, and
\* 16 bpp with rows of 8 bytes and 2 bytes of padding
Screens ==
    { [width |-> 4, height |-> 6, bpp |-> 8, pitch |-> 4],
      [width |-> 4, height |-> 5, bpp |-> 16, pitch |-> 10] }

\* the fonts SetFont is called with, by number (0 is the nil font): glyphs
\* of 2 x 2 and of 3 x 3 pixels, two glyphs each, one byte for each row
Fonts ==
    << [GlyphWidth |-> 2, GlyphHeight |-> 2, BytesPerRow |-> 1,
        Data |-> << 128, 64, 192, 64 >>],
       [GlyphWidth |-> 3, GlyphHeight |-> 3, BytesPerRow |-> 1,
        Data |-> << 224, 160, 224, 64, 64, 64 >>] >>

\* the logos SetLogo is called with, by number (0 is the nil logo): 2 x 1
\* centred, 4 x 2 right-aligned, and one of 7 rows, taller than every screen
Logos ==
    << [Width |-> 2, Height |-> 1, Align |-> "AlignCenter", TransparentIndex |-> 0,
        Palette |-> << << 0, 0, 0 >>, << 255, 255, 255 >> >>, Data |-> << 1, 0 >>],
       [Width |-> 4, Height |-> 2, Align |-> "AlignRight", TransparentIndex |-> 0,
        Palette |-> << << 0, 0, 0 >>, << 255, 255, 255 >> >>,
        Data |-> << 1, 0, 0, 1, 1, 1, 1, 1 >>],
       [Width |-> 1, Height |-> 7, Align |-> "AlignLeft", TransparentIndex |-> 0,
        Palette |-> << << 0, 0, 0 >>, << 255, 255, 255 >> >>,
        Data |-> << 1, 1, 1, 1, 1, 1, 1 >>] >>

\* the palette entries the calls followed here use, of the 256
UsedColors == { 0, 1, 7, 254, 255 }

\* loadDefaultPalette: the EGA colours, black above them
DefaultPalette ==
    [c \in UsedColors |->
       IF c = 1 THEN << 0, 0, 128 >>
       ELSE IF c = 7 THEN << 128, 128, 128 >>
       ELSE << 0, 0, 0 >>]

\* multiboot.FramebufferRGBColorInfo: 5-6-5 for 15/16 bpp, 8-8-8 above
ColorInfo(bpp) ==
    IF bpp \in {15, 16}
    THEN [RedMaskSize |-> 5, RedPosition |-> 11, GreenMaskSize |-> 6,
          GreenPosition |-> 5, BlueMaskSize |-> 5, BluePosition |-> 0]
    ELSE [RedMaskSize |-> 8, RedPosition |-> 16, GreenMaskSize |-> 8,
          GreenPosition |-> 8, BlueMaskSize |-> 8, BluePosition |-> 0]

\* packColor16 and packColor24: the colour shifted into the pixel format
packColor(c, palette, colorIndex) ==
    (palette[colorIndex][1] \div 2 ^ (8 - ColorInfo(c.bpp).RedMaskSize))
        * 2 ^ ColorInfo(c.bpp).RedPosition
    + (palette[colorIndex][2] \div 2 ^ (8 - ColorInfo(c.bpp).GreenMaskSize))
        * 2 ^ ColorInfo(c.bpp).GreenPosition
    + (palette[colorIndex][3] \div 2 ^ (8 - ColorInfo(c.bpp).BlueMaskSize))
        * 2 ^ ColorInfo(c.bpp).BluePosition

\* the bytes each switch on cons.bpp stores for one pixel
PixelLen(c) ==
    IF c.bpp = 8 THEN 1
    ELSE IF c.bpp \in {15, 16} THEN 2
    ELSE IF c.bpp \in {24, 32} THEN 3
    ELSE 0

\* the j-th byte stored for a pixel of this colour, j from 0
PixelByte(c, palette, colorIndex, j) ==
    IF c.bpp = 8 THEN colorIndex
    ELSE (packColor(c, palette, colorIndex) \div 256 ^ j) % 256

\* fbOffset(x, y)
fbOffset(c, x, y) == ((y + c.offsetY) * c.pitch) + (x * c.bytesPerPixel)

\* a store cons.fb[at] = val, or a copy cons.fb[at] = cons.fb[src]
Store(at, val) == [at |-> at, copy |-> FALSE, src |-> 0, val |-> val]
Copy(at, src) == [at |-> at, copy |-> TRUE, src |-> src, val |-> 0]

\* the index is inside cons.fb
InFb(f, i) == 0 <= i /\ i < Len(f)

\* the accesses of a method carried out in program order from the k-th on:
\* an index outside the slice raises the index-out-of-range panic and
\* ends the method
RECURSIVE RunAccesses(_, _, _, _)
RunAccesses(f, acc, k, run) ==
    IF k > Len(acc) THEN [run EXCEPT !.fb = f]
    ELSE IF acc[k].copy /\ ~InFb(f, acc[k].src)
    THEN [run EXCEPT !.fb = f, !.outside = @ \cup {acc[k].src}, !.panic = TRUE]
    ELSE IF ~InFb(f, acc[k].at)
    THEN [run EXCEPT !.fb = f, !.outside = @ \cup {acc[k].at}, !.panic = TRUE]
    ELSE RunAccesses([f EXCEPT ![acc[k].at + 1] =
                                 IF acc[k].copy THEN f[acc[k].src + 1] ELSE acc[k].val],
                     acc, k + 1,
                     [run EXCEPT !.writes = @ \cup {acc[k].at},
                                 !.reads = IF acc[k].copy THEN @ \cup {acc[k].src}
                                           ELSE @])

\* a method's accesses carried out on the framebuffer f
Run(f, acc) ==
    RunAccesses(f, acc, 1,
                [fb |-> f, reads |-> {}, writes |-> {}, outside |-> {},
                 panic |-> FALSE])

\* a SetFont that takes the whole height for text
SetFontIgnoringLogo(c, f) ==
    IF f = 0 THEN c
    ELSE [c EXCEPT !.font = f,
                   !.widthInChars = c.width \div Fonts[f].GlyphWidth,
                   !.heightInChars = c.height \div Fonts[f].GlyphHeight]

\* SetFont(f)
SetFont(c, f) ==
    IF f = 0 THEN c
    ELSE [c EXCEPT !.font = f,
                   !.widthInChars = c.width \div Fonts[f].GlyphWidth,
                   !.heightInChars = (c.height - c.offsetY) \div Fonts[f].GlyphHeight]

\* SetLogo: the palette entries the logo colours are mapped to
logoPalette(c, l) ==
    [i \in UsedColors |->
       IF i < 256 - Len(Logos[l].Palette) THEN c.palette[i]
       ELSE IF i - (256 - Len(Logos[l].Palette)) = Logos[l].TransparentIndex
       THEN c.palette[c.defaultBg]
       ELSE Logos[l].Palette[i - (256 - Len(Logos[l].Palette)) + 1]]

\* SetLogo: the offset of the first pixel of the logo
logoRowOffset(c, l) ==
    IF Logos[l].Align = "AlignLeft" THEN fbOffset(c, 0, 0)
    ELSE IF Logos[l].Align = "AlignCenter"
    THEN fbOffset(c, (c.width - Logos[l].Width) \div 2, 0)
    ELSE IF Logos[l].Align = "AlignRight"
    THEN fbOffset(c, c.width - Logos[l].Width, 0)
    ELSE 0

\* SetLogo: the stores of the drawing loops, row by row, pixel by pixel
logoAccesses(c, l) ==
    [n \in 1 .. Logos[l].Height * Logos[l].Width * PixelLen(c) |->
       Store(logoRowOffset(c, l)
               + ((n - 1) \div (Logos[l].Width * PixelLen(c))) * c.pitch
               + (((n - 1) \div PixelLen(c)) % Logos[l].Width) * c.bytesPerPixel
               + ((n - 1) % PixelLen(c)),
             PixelByte(c, logoPalette(c, l),
                       Logos[l].Data[((n - 1) \div PixelLen(c)) + 1]
                          + (256 - Len(Logos[l].Palette)),
                       (n - 1) % PixelLen(c)))]

\* SetLogo(l): the console and the drawing; offsetY is set after the drawing
SetLogo(c, f, l) ==
    IF l = 0 THEN [cons |-> c, run |-> Run(f, << >>)]
    ELSE [cons |-> IF Run(f, logoAccesses(c, l)).panic
                   THEN [c EXCEPT !.palette = logoPalette(c, l)]
                   ELSE [c EXCEPT !.palette = logoPalette(c, l),
                                  !.offsetY = Logos[l].Height],
          run |-> Run(f, logoAccesses(c, l))]

\* the bit of the glyph for the pixel (x, y): the font byte of the row and
\* the mask 1 << 7 shifted right once for each pixel
glyphBit(font, glyphIndex, x, y) ==
    (font.Data[glyphIndex * font.BytesPerRow * font.GlyphHeight
                 + y * (1 + (font.GlyphWidth - 1) \div 8) + (x \div 8) + 1]
        \div 2 ^ (7 - (x % 8))) % 2 = 1

\* write8, write16, write24: the stores for the glyph at the pixel (pX, pY)
writeAccesses(c, glyphIndex, fg, bg, pX, pY) ==
    [n \in 1 .. Fonts[c.font].GlyphHeight * Fonts[c.font].GlyphWidth * PixelLen(c) |->
       Store(fbOffset(c, pX, pY)
               + ((n - 1) \div (Fonts[c.font].GlyphWidth * PixelLen(c))) * c.pitch
               + (((n - 1) \div PixelLen(c)) % Fonts[c.font].GlyphWidth)
                    * c.bytesPerPixel
               + ((n - 1) % PixelLen(c)),
             PixelByte(c, c.palette,
                       IF glyphBit(Fonts[c.font], glyphIndex,
                                   ((n - 1) \div PixelLen(c)) % Fonts[c.font].GlyphWidth,
                                   (n - 1) \div (Fonts[c.font].GlyphWidth * PixelLen(c)))
                       THEN fg ELSE bg,
                       (n - 1) % PixelLen(c)))]

\* a Write that does not check y against heightInChars
WriteNoRowCheck(c, f, ch, fg, bg, x, y) ==
    IF x < 1 \/ x > c.widthInChars \/ y < 1 \/ c.font = 0
    THEN Run(f, << >>)
    ELSE Run(f, writeAccesses(c, ch, fg, bg, (x - 1) * Fonts[c.font].GlyphWidth,
                              (y - 1) * Fonts[c.font].GlyphHeight))

\* Write(ch, fg, bg, x, y)
Write(c, f, ch, fg, bg, x, y) ==
    IF x < 1 \/ x > c.widthInChars \/ y < 1 \/ y > c.heightInChars \/ c.font = 0
    THEN Run(f, << >>)
    ELSE Run(f, writeAccesses(c, ch, fg, bg, (x - 1) * Fonts[c.font].GlyphWidth,
                              (y - 1) * Fonts[c.font].GlyphHeight))

\* Fill: x or y clipped to the console, 0 becoming 1
clipStart(v, limit) ==
    IF v = 0 THEN 1 ELSE IF v >= limit THEN limit ELSE v

\* Fill: width or height clipped at the console's edge; the comparison is
\* one of uint32 values
clipLen(start, len, limit) ==
    IF ULt(limit, start + len - 1) THEN limit - start + 1 ELSE len

\* the rounds a loop over a uint32 count makes before it leaves cons.fb: a
\* count below zero stands for one above 2^31
loopCount(f, count) ==
    IF count < 0 \/ count > Len(f) THEN Len(f) + 1 ELSE count

\* fill8, fill16, fill24: the stores for pW x pH pixels from (pX, pY) on
fillAccesses(c, f, pX, pY, pW, pH, bg) ==
    [n \in 1 .. loopCount(f, pH) * loopCount(f, pW) * PixelLen(c) |->
       Store(fbOffset(c, pX, pY)
               + ((n - 1) \div (loopCount(f, pW) * PixelLen(c))) * c.pitch
               + (((n - 1) \div PixelLen(c)) % loopCount(f, pW)) * c.bytesPerPixel
               + ((n - 1) % PixelLen(c)),
             PixelByte(c, c.palette, bg, (n - 1) % PixelLen(c)))]

\* Fill once x, y, width and height are clipped
fillClipped(c, f, x, y, width, height, bg) ==
    Run(f, fillAccesses(c, f, (x - 1) * Fonts[c.font].GlyphWidth,
                        (y - 1) * Fonts[c.font].GlyphHeight,
                        width * Fonts[c.font].GlyphWidth,
                        height * Fonts[c.font].GlyphHeight, bg))

\* Fill(x, y, width, height, _, bg)
Fill(c, f, x, y, width, height, bg) ==
    IF c.font = 0 THEN Run(f, << >>)
    ELSE fillClipped(c, f, clipStart(x, c.widthInChars), clipStart(y, c.heightInChars),
                     clipLen(clipStart(x, c.widthInChars), width, c.widthInChars),
                     clipLen(clipStart(y, c.heightInChars), height, c.heightInChars),
                     bg)

\* Scroll: offset, the bytes of the lines scrolled
scrollOffset(c, lines) ==
    fbOffset(c, 0, lines * Fonts[c.font].GlyphHeight - c.offsetY)

\* Scroll, ScrollDirUp: the copies from startOffset up to endOffset
scrollUpAccesses(c, lines) ==
    [n \in 1 .. (fbOffset(c, 0, c.height - lines * Fonts[c.font].GlyphHeight
                                  - c.offsetY)
                   - fbOffset(c, 0, 0)) |->
       Copy(fbOffset(c, 0, 0) + (n - 1),
            fbOffset(c, 0, 0) + (n - 1) + scrollOffset(c, lines))]

\* Scroll, ScrollDirDown: the rounds of the loop from len(cons.fb) - 1 down
\* while i >= startOffset; i is a uint32, so with startOffset = 0 or an
\* empty slice the loop goes on to i = 2^32 - 1, kept here as -1
scrollDownRounds(f, startOffset) ==
    IF startOffset = 0 \/ Len(f) = 0 THEN Len(f) + 1
    ELSE IF startOffset < 0 \/ startOffset > Len(f) THEN 0
    ELSE Len(f) - startOffset

scrollDownAccesses(c, f, lines) ==
    [n \in 1 .. scrollDownRounds(f, fbOffset(c, 0, lines * Fonts[c.font].GlyphHeight)) |->
       Copy(Len(f) - n, Len(f) - n - scrollOffset(c, lines))]

\* a Scroll that takes rows from the top of the framebuffer
ScrollFromTop(c, f, dir, lines) ==
    IF c.font = 0 \/ lines = 0 \/ lines > c.heightInChars THEN Run(f, << >>)
    ELSE IF dir = "ScrollDirUp"
    THEN Run(f, scrollUpAccesses([c EXCEPT !.offsetY = 0], lines))
    ELSE IF dir = "ScrollDirDown"
    THEN Run(f, scrollDownAccesses([c EXCEPT !.offsetY = 0], f, lines))
    ELSE Run(f, << >>)

\* Scroll(dir, lines)
Scroll(c, f, dir, lines) ==
    IF c.font = 0 \/ lines = 0 \/ lines > c.heightInChars THEN Run(f, << >>)
    ELSE IF dir = "ScrollDirUp" THEN Run(f, scrollUpAccesses(c, lines))
    ELSE IF dir = "ScrollDirDown" THEN Run(f, scrollDownAccesses(c, f, lines))
    ELSE Run(f, << >>)

\* what the video memory holds when it is mapped: DriverInit does not
\* clear it; no two bytes a few rows apart are the same
VideoMemory(size) == [i \in 1 .. size |-> (i - 1) % 256]

\* DriverInit: the framebuffer of height * pitch bytes is mapped and the
\* default palette loaded
DriverInit(c) ==
    [cons |-> [c EXCEPT !.palette = DefaultPalette],
     fb |-> VideoMemory(c.height * c.pitch)]

\* the calls of console methods followed
MaxConsoleOps == 3

\* the character coordinates and line counts the methods are called with:
\* the edges of the console and one step outside them
EdgeCoords(limit) == { 0, 1, limit, limit + 1 }

\* the widths and heights Fill is called with, in characters
FillSizes == { 0, 2 }

\* the console of a booted kernel: probed, DriverInit done
ConsoleInit ==
    /\ pc = "runtime"
    /\ mmap = RuntimeMap
    /\ bootMemAllocator = RuntimeBoot.boot
    /\ earlyFrames = RuntimeBoot.frames
    /\ earlyResult = << >>
    /\ bitmapAllocator = RuntimeBoot.alloc
    /\ inheritedFrames = RuntimeBoot.replayed
    /\ bitmapResult = << "init", 0, "nil" >>
    /\ outstanding = {}
    /\ foreignFree = FALSE
    /\ ops = 0
    /\ memEvents = RuntimeBootEvents
    /\ LockInitial
    /\ RuntimeInitial
    /\ BootInitial
    /\ redirectTable = ExampleTable
    /\ \E s \in Screens :
          /\ cons = DriverInit(NewVesaFbConsole(s.width, s.height, s.bpp, s.pitch)).cons
          /\ fb = DriverInit(NewVesaFbConsole(s.width, s.height, s.bpp, s.pitch)).fb
    /\ consResult = ConsoleCall("none", << >>, << >>, NoAccess)
    /\ consCalls = << >>

\* what no console method changes
consoleUnchanged ==
    /\ UNCHANGED << pc, mmap, bootMemAllocator, earlyFrames, earlyResult >>
    /\ UNCHANGED bitmapVars
    /\ UNCHANGED << lockVars, runtimeVars, bootVars >>

\* a console method may be called: none has panicked
ConsoleReady ==
    /\ Len(consCalls) < MaxConsoleOps
    /\ ~consResult.panic

CallSetFont ==
    /\ ConsoleReady
    /\ \E f \in 0 .. Len(Fonts) :
          /\ cons' = SetFont(cons, f)
          /\ consResult' = ConsoleCall("SetFont", << f >>, fb, NoAccess)
    /\ consCalls' = Append(consCalls, "SetFont")
    /\ UNCHANGED fb
    /\ consoleUnchanged

CallSetLogo ==
    /\ ConsoleReady
    /\ \E l \in 0 .. Len(Logos) :
          /\ cons' = SetLogo(cons, fb, l).cons
          /\ fb' = SetLogo(cons, fb, l).run.fb
          /\ consResult' = ConsoleCall("SetLogo", << l >>, fb, SetLogo(cons, fb, l).run)
    /\ consCalls' = Append(consCalls, "SetLogo")
    /\ consoleUnchanged

CallWrite ==
    /\ ConsoleReady
    /\ \E x \in EdgeCoords(cons.widthInChars), y \in EdgeCoords(cons.heightInChars) :
          /\ fb' = Write(cons, fb, 1, 7, 1, x, y).fb
          /\ consResult' = ConsoleCall("Write", << x, y >>, fb,
                                       Write(cons, fb, 1, 7, 1, x, y))
    /\ consCalls' = Append(consCalls, "Write")
    /\ UNCHANGED cons
    /\ consoleUnchanged

CallFill ==
    /\ ConsoleReady
    /\ \E x \in EdgeCoords(cons.widthInChars), y \in EdgeCoords(cons.heightInChars),
          width \in FillSizes, height \in FillSizes :
          /\ fb' = Fill(cons, fb, x, y, width, height, 1).fb
          /\ consResult' = ConsoleCall("Fill", << x, y, width, height >>, fb,
                                       Fill(cons, fb, x, y, width, height, 1))
    /\ consCalls' = Append(consCalls, "Fill")
    /\ UNCHANGED cons
    /\ consoleUnchanged

CallScroll ==
    /\ ConsoleReady
    /\ \E dir \in {"ScrollDirUp", "ScrollDirDown"},
          lines \in EdgeCoords(cons.heightInChars) :
          /\ fb' = Scroll(cons, fb, dir, lines).fb
          /\ consResult' = ConsoleCall(dir, << lines >>, fb,
                                       Scroll(cons, fb, dir, lines))
    /\ consCalls' = Append(consCalls, "Scroll")
    /\ UNCHANGED cons
    /\ consoleUnchanged

ConsoleNext ==
    \/ CallSetFont
    \/ CallSetLogo
    \/ CallWrite
    \/ CallFill
    \/ CallScroll

ConsoleSpec == ConsoleInit /\ [][ConsoleNext]_vars

\* no SetLogo call was made after a SetFont call
LogoBeforeFont ==
    \A i, j \in 1 .. Len(consCalls) :
        (consCalls[i] = "SetFont" /\ consCalls[j] = "SetLogo") => j < i

\* the pixel row of a framebuffer offset
PixelRow(i) == i \div cons.pitch

\* heightInChars * GlyphHeight + offsetY <= height
TextFitsBelowLogo ==
    cons.font # 0 =>
        cons.heightInChars * Fonts[cons.font].GlyphHeight + cons.offsetY <= cons.height

\* the last call was a Write or a Fill at a character cell of the console
DrawInsideText ==
    /\ consResult.op \in {"Write", "Fill"}
    /\ cons.font # 0
    /\ consResult.args[1] \in 1 .. cons.widthInChars
    /\ consResult.args[2] \in 1 .. cons.heightInChars

\* the last call was a Write outside the console or without a font
WriteOutsideText ==
    /\ consResult.op = "Write"
    /\ \/ cons.font = 0
       \/ consResult.args[1] \notin 1 .. cons.widthInChars
       \/ consResult.args[2] \notin 1 .. cons.heightInChars

\* C35: when every SetLogo call comes before the SetFont calls,
\* heightInChars * GlyphHeight + offsetY <= height, and a Write or Fill at
\* character coordinates in [1..widthInChars] x [1..heightInChars] stays
\* inside the framebuffer and stores only to pixel rows in [offsetY, height);
\* a Write with x or y outside that range or with no font set changes no
\* byte of the framebuffer
C35_TextStaysBelowLogo ==
    /\ LogoBeforeFont =>
          /\ TextFitsBelowLogo
          /\ DrawInsideText =>
                /\ ~consResult.panic
                /\ consResult.outside = {}
                /\ \A i \in consResult.writes :
                       /\ cons.offsetY <= PixelRow(i)
                       /\ PixelRow(i) < cons.height
    /\ WriteOutsideText => (fb = consResult.fb0 /\ consResult.writes = {})

\* C35 witness: a logo and then a font were set, and a Write at the last
\* cell of the last text line stored the glyph below the logo
C35_Witness ==
    /\ consCalls = << "SetLogo", "SetFont", "Write" >>
    /\ cons.offsetY > 0
    /\ cons.heightInChars > 0
    /\ consResult.args = << cons.widthInChars, cons.heightInChars >>
    /\ consResult.writes # {}
    /\ fb # consResult.fb0

\* the last call was a Scroll
ScrollCalled == consResult.op \in {"ScrollDirUp", "ScrollDirDown"}

\* C36: a Scroll in either direction indexes no byte outside the
\* framebuffer, so its loops end without a panic, and leaves every byte of
\* the pixel rows 0 .. offsetY - 1 as it was; with no font set, lines = 0
\* or lines > heightInChars it leaves the whole framebuffer as it was
C36_ScrollKeepsLogoRows ==
    ScrollCalled =>
        /\ ~consResult.panic
        /\ consResult.outside = {}
        /\ \A i \in consResult.writes : cons.offsetY <= PixelRow(i)
        /\ \A i \in 0 .. cons.offsetY * cons.pitch - 1 :
               InFb(fb, i) => fb[i + 1] = consResult.fb0[i + 1]
        /\ (cons.font = 0 \/ consResult.args[1] = 0
              \/ consResult.args[1] > cons.heightInChars) =>
               (fb = consResult.fb0 /\ consResult.writes = {}
                  /\ consResult.reads = {})

\* C36 witness: below a logo, a ScrollDirDown by one line moved the text rows
C36_Witness ==
    /\ consResult.op = "ScrollDirDown"
    /\ cons.offsetY > 0
    /\ consResult.args = << 1 >>
    /\ consResult.writes # {}
    /\ consResult.reads # {}
    /\ fb # consResult.fb0
====
